---- MODULE Spec2Model ----
(***************************************************************************)
(* Model of @ldesign/docs: the plugin pipeline (PluginManager), the        *)
(* document generator (DocGenerator.generate) and the build / generate     *)
(* CLI commands that drive them.                                           *)
(*                                                                         *)
(* Two specifications share the hook runner of the PluginManager:          *)
(*   SpecPM  a client of the exported PluginManager class that registers   *)
(*           plugins and runs hooks, one awaited call at a time;           *)
(*   Spec    one run of the `build` or of the `generate` command.          *)
(* Unit specifications apply one function to the arguments it can get:     *)
(*   SpecFrontmatter  DocGenerator.extractFrontmatter;                     *)
(*   SpecSearch       generateSearchIndex;                                 *)
(*   SpecComponents   parseVueComponent and parseReactComponent;           *)
(*   SpecTypeScript   parseTypeScriptFile;                                 *)
(*   SpecJSDoc        getJSDocComment;                                     *)
(*   SpecVueProps     extractProps on a typed prop block;                  *)
(*   SpecSlug         the two slug functions of the markdown processor;    *)
(*   SpecProse        one iteration of generateMarkdownDocs.               *)
(* SpecHighlighter interleaves the createHighlighter calls of a process.   *)
(***************************************************************************)
EXTENDS Integers, Sequences, FiniteSets, TLC

\* ------------------------------------------------------------------ bounds
\* largest number of plugins ever registered in one PluginManager
MaxPlugins == 2
\* largest number of hook runs a PluginManager client makes (SpecPM)
MaxCalls == 2
\* largest number of source files present in the project (Spec)
MaxFiles == 2

\* ------------------------------------------------------------ plugin model
HookKinds ==
  {"config", "configResolved", "transformMarkdown", "beforeGenerate",
   "afterGenerate", "beforeBuild", "afterBuild"}

\* the value of a hook that returns nothing (undefined)
Void == [void |-> TRUE]

\* DocsPlugin objects the runs are exercised with.  `hooks` are the optional
\* members the object defines; `cfgReturns` tells whether its config hook
\* returns a replacement configuration or nothing.
PluginPool ==
  { [name |-> "pAll", hooks |-> HookKinds, cfgReturns |-> TRUE],
    [name |-> "pMix",
     hooks |-> {"config", "configResolved", "transformMarkdown",
                "afterGenerate", "beforeBuild"},
     cfgReturns |-> FALSE],
    [name |-> "pNone", hooks |-> {}, cfgReturns |-> TRUE] }

\* what the hook function of plugin p does with its argument: a config hook
\* that returns a value returns its argument marked with the plugin's name, a
\* transformMarkdown hook appends the plugin's name to the text, the observer
\* hooks return nothing
HookResult(p, kind, arg) ==
  CASE kind = "config" ->
         IF p.cfgReturns THEN [arg EXCEPT !.touched = Append(@, p.name)]
         ELSE Void
    [] kind = "transformMarkdown" -> Append(arg, p.name)
    [] OTHER -> Void

VARIABLES
  mode,      \* "client" (SpecPM), "build" or "generate" (Spec)
  pc,        \* position of the command / of the client
  config,    \* the configuration loadConfig returns
  plugins,   \* PluginManager.plugins
  regLog,    \* history: the plugins in the order register was called
  hook,      \* the hook run in progress, or NoHook
  ret,       \* outcome of the last finished hook run
  ncalls,    \* number of hook runs the client has started
  trace,     \* history of the run: hook calls, file processing, buildSite
  fs,        \* the source files on disk, per category, in enumeration order
  idx,       \* loop index of the file loop in progress
  content,   \* generateMarkdownDocs: text of the file read
  local,     \* the `docs` array of the generateXxxDocs method in progress
  docs,      \* the `docs` array of DocGenerator.generate
  err,       \* what made the command fail ("none" if nothing did)
  out,       \* the files under the output root, as [file, data] records
  given,     \* the argument of the function a unit specification applies
  got,       \* what that function returned
  highlighter, \* highlighter.ts: the module-level `let highlighter`
  callers    \* the createHighlighter calls of the process and their positions

vars == <<mode, pc, config, plugins, regLog, hook, ret, ncalls, trace, fs,
          idx, content, local, docs, err, out, given, got, highlighter,
          callers>>

genVars == <<fs, idx, content, local, docs, out>>

hlVars == <<highlighter, callers>>

\* highlighter.ts line 7: `let highlighter: Highlighter | null = null`
Null == <<>>

\* -------------------------------------------------------- PluginManager
NoHook == [kind |-> "none"]
NoRet == [status |-> "none"]

\* this.plugins.push(plugin)
pushFront(list, plugin) == <<plugin>> \o list
push(list, plugin) == Append(list, plugin)

RECURSIVE registerAll(_, _)
\* plugins.forEach((plugin) => this.register(plugin))
registerAll(list, ps) ==
  IF ps = <<>> THEN list ELSE registerAll(push(list, Head(ps)), Tail(ps))

\* the `if (plugin.<hook>)` test of the hook runners
HasHookAlways(p, kind) == TRUE
HasHook(p, kind) == kind \in p.hooks

\* `await`: the loop of a hook runner goes on only when the invocation it
\* made has settled
AwaitedNever(h) == TRUE
Awaited(h) == h.inflight = {}

\* the running value after plugin's hook returned `returned`
\*   config:            if (modified) { result = modified }
\*   transformMarkdown: result = await plugin.transformMarkdown(result, file)
\*   observers:         the returned value is dropped
UpdateAlways(kind, result, returned) ==
  IF kind \in {"config", "transformMarkdown"} THEN returned ELSE result
Update(kind, result, returned) ==
  CASE kind = "config" -> IF returned # Void THEN returned ELSE result
    [] kind = "transformMarkdown" -> returned
    [] OTHER -> result

\* the argument the runner passes to the next hook: the running value
HookArg(h) == h.result

\* entry of a hook runner: let result = <input>, start of the for loop
NewHook(kind, input, file) ==
  [kind |-> kind, i |-> 1, input |-> input, result |-> input, file |-> file,
   inflight |-> {}, calls |-> <<>>]

Running == hook.kind # "none"

\* where the caller goes on after the hook run at pc returned
AfterHookSkipsBuildSite(m, p) ==
  CASE p = "call" -> "client"
    [] p = "configResolved" ->
         IF m = "build" THEN "beforeBuild" ELSE "createMarkdownProcessor"
    [] p = "beforeBuild" -> "createMarkdownProcessor"
    [] p = "transformMarkdown" -> "render"
    [] p = "beforeGenerate" -> "afterGenerate"
    [] p = "afterGenerate" -> IF m = "build" THEN "afterBuild" ELSE "done"
    [] p = "afterBuild" -> "done"
AfterHook(m, p) ==
  CASE p = "call" -> "client"
    [] p = "configResolved" ->
         IF m = "build" THEN "beforeBuild" ELSE "createMarkdownProcessor"
    [] p = "beforeBuild" -> "createMarkdownProcessor"
    [] p = "transformMarkdown" -> "render"
    [] p = "beforeGenerate" -> "afterGenerate"
    [] p = "afterGenerate" -> IF m = "build" THEN "buildSite" ELSE "done"
    [] p = "afterBuild" -> "done"

\* the per-file try/catch of the generateXxxDocs loops: the error is logged
\* and the loop at loopPc goes on with the next file
FileErrorAborts(loopPc) == "exit1"
OnFileError(loopPc) == loopPc

\* the catch block that receives an exception raised by the hook run at pc:
\* the client's, the per-file try/catch of generateMarkdownDocs, or the
\* catch of the command (logger.error; process.exit(1))
HookCatchOfCommand(p) == IF p = "call" THEN "client" ELSE "exit1"
HookCatch(p) ==
  CASE p = "call" -> "client"
    [] p = "transformMarkdown" -> OnFileError("generateMarkdownDocs")
    [] OTHER -> "exit1"

\* an entry of the history: invocation ("call"), fulfilment ("end") or
\* rejection ("throw") of the hook of plugin p in the hook run h
HookEvent(ev, h, p) ==
  [ev |-> ev, kind |-> h.kind, who |-> p.name, file |-> h.file]

\* one iteration of `for (const plugin of this.plugins)`: the plugin has no
\* such hook and is passed over
HookSkip ==
  /\ Running /\ Awaited(hook)
  /\ hook.i <= Len(plugins)
  /\ ~HasHook(plugins[hook.i], hook.kind)
  /\ hook' = [hook EXCEPT !.i = @ + 1]
  /\ UNCHANGED hlVars
  /\ UNCHANGED <<given, got, mode, pc, config, plugins, regLog, ret, ncalls,
                 trace, err>>
  /\ UNCHANGED genVars

\* the exception of a failed hook run reaches the catch block of the caller
Raise(cause) ==
  /\ hook' = NoHook
  /\ ret' = [status |-> "threw", kind |-> hook.kind, cause |-> cause]
  /\ pc' = HookCatch(pc)
  /\ err' = IF HookCatch(pc) # "exit1" THEN err
            ELSE IF pc = "transformMarkdown" THEN "file" ELSE hook.kind
  /\ idx' = IF pc = "transformMarkdown" THEN idx + 1 ELSE idx
  /\ UNCHANGED hlVars
  /\ UNCHANGED <<given, got, mode, config, plugins, regLog, ncalls, fs,
                 content, local, docs, out>>

\* one iteration: the plugin's hook is called with the running value (calling
\* a member the plugin object does not have raises a TypeError)
HookInvoke ==
  /\ Running /\ Awaited(hook)
  /\ hook.i <= Len(plugins)
  /\ HasHook(plugins[hook.i], hook.kind)
  /\ LET p == plugins[hook.i]
         c == [idx |-> hook.i, name |-> p.name, arg |-> HookArg(hook),
               file |-> hook.file]
     IN IF hook.kind \in p.hooks
        THEN /\ hook' = [hook EXCEPT !.i = @ + 1,
                                     !.inflight = @ \cup {c},
                                     !.calls = Append(@, c)]
             /\ trace' = Append(trace, HookEvent("call", hook, p))
             /\ UNCHANGED hlVars
             /\ UNCHANGED <<given, got, mode, pc, config, plugins, regLog,
                            ret, ncalls, err>>
             /\ UNCHANGED genVars
        ELSE /\ Raise("TypeError")
             /\ UNCHANGED trace

\* the promise of an invoked hook is fulfilled
HookSettle ==
  /\ Running
  /\ \E c \in hook.inflight :
       /\ hook' = [hook EXCEPT
                     !.inflight = @ \ {c},
                     !.result = Update(hook.kind, @,
                                  HookResult(plugins[c.idx], hook.kind, c.arg))]
       /\ trace' = Append(trace, HookEvent("end", hook, plugins[c.idx]))
  /\ UNCHANGED hlVars
  /\ UNCHANGED <<given, got, mode, pc, config, plugins, regLog, ret, ncalls,
                 err>>
  /\ UNCHANGED genVars

\* the promise of an invoked hook is rejected (the plugin throws)
HookThrow ==
  /\ Running
  /\ \E c \in hook.inflight :
       trace' = Append(trace, HookEvent("throw", hook, plugins[c.idx]))
  /\ Raise("plugin")

\* the for loop is over: return result
HookReturn ==
  /\ Running /\ Awaited(hook)
  /\ hook.i > Len(plugins)
  /\ hook' = NoHook
  /\ ret' = [status |-> "returned", kind |-> hook.kind, input |-> hook.input,
             value |-> hook.result, calls |-> hook.calls]
  /\ pc' = AfterHook(mode, pc)
  /\ UNCHANGED hlVars
  /\ UNCHANGED <<given, got, mode, config, plugins, regLog, ncalls, trace,
                 err>>
  /\ UNCHANGED genVars

HookRunner ==
  \/ HookSkip
  \/ HookInvoke
  \/ HookSettle
  \/ HookThrow
  \/ HookReturn

\* ------------------------------------------- client of the PluginManager
\* configurations: `touched` lists the plugins whose config hook replaced it
DocsConfig(ps) == [plugins |-> ps, resolved |-> FALSE, touched |-> <<>>]
\* resolveConfig: the directories made absolute, root and cacheDir added
resolveConfigSkipped(c) == c
resolveConfig(c) == [c EXCEPT !.resolved = TRUE]

\* the arguments the client runs each hook with
ClientInput(kind) ==
  CASE kind = "config" -> DocsConfig(<<>>)
    [] kind = "transformMarkdown" -> <<"index">>
    [] kind \in {"beforeGenerate", "afterGenerate"} ->
         [config |-> resolveConfig(DocsConfig(<<>>)), files |-> <<>>, docs |-> <<>>]
    [] OTHER -> resolveConfig(DocsConfig(<<>>))

ClientFile(kind) == IF kind = "transformMarkdown" THEN "index.md" ELSE ""

NoFiles == [md |-> <<>>, api |-> <<>>, vue |-> <<>>, react |-> <<>>]

InitPM ==
  /\ mode = "client"
  /\ pc = "client"
  /\ config = DocsConfig(<<>>)
  /\ plugins = <<>>
  /\ regLog = <<>>
  /\ hook = NoHook
  /\ ret = NoRet
  /\ ncalls = 0
  /\ trace = <<>>
  /\ fs = NoFiles
  /\ idx = 1
  /\ content = <<>>
  /\ local = <<>>
  /\ docs = <<>>
  /\ err = "none"
  /\ out = <<>>
  /\ given = <<>>
  /\ got = <<>>
  /\ highlighter = Null
  /\ callers = <<>>

\* PluginManager.register
register ==
  /\ pc = "client"
  /\ Len(plugins) < MaxPlugins
  /\ \E p \in PluginPool :
       /\ plugins' = push(plugins, p)
       /\ regLog' = Append(regLog, p)
  /\ UNCHANGED hlVars
  /\ UNCHANGED <<given, got, mode, pc, config, hook, ret, ncalls, trace, err>>
  /\ UNCHANGED genVars

\* PluginManager.registerBatch
registerBatch ==
  /\ pc = "client"
  /\ \E n \in 0..(MaxPlugins - Len(plugins)) :
       \E ps \in [1..n -> PluginPool] :
         /\ plugins' = registerAll(plugins, ps)
         /\ regLog' = regLog \o ps
  /\ UNCHANGED hlVars
  /\ UNCHANGED <<given, got, mode, pc, config, hook, ret, ncalls, trace, err>>
  /\ UNCHANGED genVars

\* the client calls one of the seven hook runners and awaits it
ClientCall ==
  /\ pc = "client"
  /\ ncalls < MaxCalls
  /\ \E kind \in HookKinds :
       hook' = NewHook(kind, ClientInput(kind), ClientFile(kind))
  /\ pc' = "call"
  /\ ncalls' = ncalls + 1
  /\ trace' = <<>>
  /\ ret' = NoRet
  /\ UNCHANGED hlVars
  /\ UNCHANGED <<given, got, mode, config, plugins, regLog, err>>
  /\ UNCHANGED genVars

NextPM ==
  \/ register
  \/ registerBatch
  \/ ClientCall
  \/ HookRunner

SpecPM == InitPM /\ [][NextPM]_vars

\* ------------------------------------------------------------ source files
\* a path relative to its root: directories, base name, extension
Path(dir, base, ext) == [dir |-> dir, base |-> base, ext |-> ext]

\* a piece of text the underlying renderer (markdown-it and its highlight
\* callback) raises on
Malformed == "malformed"

\* a source file: `fault` is "throws" when reading or parsing it raises,
\* "empty" when it parses to no exported declaration, "render" when its text
\* holds a piece the renderer raises on, else "none"; `text` is the raw text
\* of a prose file, `fmTitle` the title of its front matter ("" when it has
\* none), `heading` the text of its first heading ("" when it has none),
\* `comp` the name the component parser finds
File(name, rel, fault, fmTitle, heading, comp) ==
  [name |-> name, rel |-> rel, fault |-> fault,
   text |-> IF fault = "render" THEN <<rel.base, Malformed>> ELSE <<rel.base>>,
   fmTitle |-> fmTitle, heading |-> heading, comp |-> comp]

\* the files fast-glob can find, per category, in enumeration order
MdUniverse ==
  << File("api/src/util.md", Path(<<"api", "src">>, "util", "md"), "render",
          "Home", "Welcome", ""),
     File("broken.md", Path(<<>>, "broken", "md"), "throws", "", "", ""),
     File("guide.md", Path(<<>>, "guide", "md"), "none", "", "Getting Started",
          "") >>
ApiUniverse ==
  << File("empty.ts", Path(<<"src">>, "empty", "ts"), "empty", "", "", ""),
     File("util.ts", Path(<<"src">>, "util", "ts"), "none", "", "", "") >>
VueUniverse ==
  << File("Button.vue", Path(<<>>, "Button", "vue"), "none", "", "", "Button") >>
ReactUniverse ==
  << File("Broken.jsx", Path(<<>>, "Broken", "jsx"), "throws", "", "", ""),
     File("Button.jsx", Path(<<>>, "Button", "jsx"), "none", "", "", "Button") >>

Range(q) == {q[k] : k \in 1..Len(q)}

AllFiles ==
  Range(MdUniverse) \cup Range(ApiUniverse) \cup Range(VueUniverse)
    \cup Range(ReactUniverse)

\* the listing of a project that holds the files S
Listing(S) ==
  [md |-> SelectSeq(MdUniverse, LAMBDA f : f \in S),
   api |-> SelectSeq(ApiUniverse, LAMBDA f : f \in S),
   vue |-> SelectSeq(VueUniverse, LAMBDA f : f \in S),
   react |-> SelectSeq(ReactUniverse, LAMBDA f : f \in S)]

\* ------------------------------------------------------------ DocGenerator
\* relativePath.replace(/\.<ext>$/, '.html') for the extensions in exts
ReplaceExt(p, exts, new) == IF p.ext \in exts THEN [p EXCEPT !.ext = new] ELSE p

\* `<prefix>/${docPath}`
Prefixed(prefix, p) == [p EXCEPT !.dir = <<prefix>> \o @]

\* a title: a text taken as it stands, or the humanized form of a base name
\* (split at '-', each word capitalised, joined with ' ')
Verbatim(text) == [humanized |-> FALSE, text |-> text]
getTitleFromPath(p) == [humanized |-> TRUE, text |-> p.base]

\* `title || this.getTitleFromPath(relativePath)`
TitleOf(f) ==
  IF f.fmTitle # "" THEN Verbatim(f.fmTitle) ELSE getTitleFromPath(f.rel)

\* this.md.render(content): the HTML of the text, or the exception raised
mdRender(text) ==
  IF Malformed \in {text[k] : k \in 1..Len(text)}
  THEN [html |-> "threw", of |-> <<"message">>]
  ELSE [html |-> "markdown", of |-> text]

\* MarkdownProcessor.render: try { return this.md.render(content) }
\* catch (error) { return `<pre>Error rendering markdown: ...</pre>` }
RenderUncaught(text) == mdRender(text)
Render(text) ==
  IF mdRender(text).html = "threw"
  THEN [html |-> "placeholder",
        of |-> <<"Error rendering markdown">> \o mdRender(text).of]
  ELSE mdRender(text)

\* renderApiDoc / renderComponentDoc: the HTML of their argument
renderApiDoc(f) == [html |-> "api", of |-> <<f.name>>]
renderComponentDoc(f) == [html |-> "component", of |-> <<f.comp>>]

\* the Document Node generateMarkdownDocs pushes for file f whose transformed
\* text is `transformed`
MarkdownNodeRaw(f, transformed) ==
  [path |-> f.rel,
   title |-> TitleOf(f), content |-> Render(f.text), type |-> "markdown"]
MarkdownNode(f, transformed) ==
  [path |-> f.rel,
   title |-> TitleOf(f), content |-> Render(transformed), type |-> "markdown"]

\* the Document Node generateApiDocs pushes for file f
ApiNode(f) ==
  [path |-> Prefixed("api", ReplaceExt(f.rel, {"ts", "tsx"}, "html")),
   title |-> getTitleFromPath(f.rel),
   content |-> renderApiDoc(f), type |-> "api"]

\* the Document Node generateComponentDocs pushes for a .vue file
VueNode(f) ==
  [path |-> Prefixed("components", ReplaceExt(f.rel, {"vue"}, "html")),
   title |-> Verbatim(f.comp), content |-> renderComponentDoc(f),
   type |-> "component"]

\* the Document Node generateComponentDocs pushes for a .jsx / .tsx file
ReactNode(f) ==
  [path |-> Prefixed("components", ReplaceExt(f.rel, {"jsx", "tsx"}, "html")),
   title |-> Verbatim(f.comp), content |-> renderComponentDoc(f),
   type |-> "component"]

\* `if (apiNodes.length === 0) continue`
SkipsEmpty(f) == f.fault = "empty"

\* an entry of the history: the loop of category cat takes up file f
FileEvent(cat, f) ==
  [ev |-> "file", kind |-> cat, who |-> f.name, file |-> f.name]

\* a file whose reading or parsing raised: logger.error, next file
FileFailed(loopPc) ==
  /\ pc' = OnFileError(loopPc)
  /\ err' = IF OnFileError(loopPc) = "exit1" THEN "file" ELSE err
  /\ idx' = idx + 1
  /\ UNCHANGED <<local, hook, content>>

\* generateMarkdownDocs, one iteration up to the await of transformMarkdown
MarkdownFile ==
  /\ pc = "generateMarkdownDocs" /\ idx <= Len(fs.md)
  /\ LET f == fs.md[idx]
     IN /\ trace' = Append(trace, FileEvent("md", f))
        /\ IF f.fault = "throws"
           THEN FileFailed("generateMarkdownDocs")
           ELSE /\ content' = f.text
                /\ hook' = NewHook("transformMarkdown", f.text, f.name)
                /\ pc' = "transformMarkdown"
                /\ UNCHANGED <<idx, local, err>>
  /\ UNCHANGED hlVars
  /\ UNCHANGED <<given, got, mode, config, plugins, regLog, ret, ncalls, fs,
                 docs, out>>

\* generateMarkdownDocs, the rest of the iteration: render, extractFrontmatter,
\* docs.push
MarkdownRender ==
  /\ pc = "render"
  /\ IF Render(ret.value).html = "threw"
     THEN FileFailed("generateMarkdownDocs")
     ELSE /\ local' = Append(local, MarkdownNode(fs.md[idx], ret.value))
          /\ idx' = idx + 1
          /\ pc' = "generateMarkdownDocs"
          /\ UNCHANGED <<hook, content, err>>
  /\ UNCHANGED hlVars
  /\ UNCHANGED <<given, got, mode, config, plugins, regLog, ret, ncalls,
                 trace, fs, docs, out>>

\* docs.push(...items)
pushAllFront(list, items) == items \o list
pushAll(list, items) == list \o items

\* generateMarkdownDocs returns; generate: docs.push(...markdownDocs)
MarkdownDone ==
  /\ pc = "generateMarkdownDocs" /\ idx > Len(fs.md)
  /\ docs' = pushAll(docs, local)
  /\ local' = <<>>
  /\ idx' = 1
  /\ pc' = "generateApiDocs"
  /\ UNCHANGED hlVars
  /\ UNCHANGED <<given, got, mode, config, plugins, regLog, hook, ret, ncalls,
                 trace, fs, content, err, out>>

\* generateApiDocs, one iteration
ApiFile ==
  /\ pc = "generateApiDocs" /\ idx <= Len(fs.api)
  /\ LET f == fs.api[idx]
     IN /\ trace' = Append(trace, FileEvent("api", f))
        /\ IF f.fault = "throws"
           THEN FileFailed("generateApiDocs")
           ELSE /\ local' = IF SkipsEmpty(f) THEN local
                            ELSE Append(local, ApiNode(f))
                /\ idx' = idx + 1
                /\ UNCHANGED <<pc, hook, content, err>>
  /\ UNCHANGED hlVars
  /\ UNCHANGED <<given, got, mode, config, plugins, regLog, ret, ncalls, fs,
                 docs, out>>

\* generateApiDocs returns; generate: docs.push(...apiDocs)
ApiDone ==
  /\ pc = "generateApiDocs" /\ idx > Len(fs.api)
  /\ docs' = pushAll(docs, local)
  /\ local' = <<>>
  /\ idx' = 1
  /\ pc' = "vueFiles"
  /\ UNCHANGED hlVars
  /\ UNCHANGED <<given, got, mode, config, plugins, regLog, hook, ret, ncalls,
                 trace, fs, content, err, out>>

\* generateComponentDocs, one iteration of the loop over the .vue files
VueFile ==
  /\ pc = "vueFiles" /\ idx <= Len(fs.vue)
  /\ LET f == fs.vue[idx]
     IN /\ trace' = Append(trace, FileEvent("vue", f))
        /\ IF f.fault = "throws"
           THEN FileFailed("vueFiles")
           ELSE /\ local' = Append(local, VueNode(f))
                /\ idx' = idx + 1
                /\ UNCHANGED <<pc, hook, content, err>>
  /\ UNCHANGED hlVars
  /\ UNCHANGED <<given, got, mode, config, plugins, regLog, ret, ncalls, fs,
                 docs, out>>

\* generateComponentDocs, from the first loop to the second
VueDone ==
  /\ pc = "vueFiles" /\ idx > Len(fs.vue)
  /\ idx' = 1
  /\ pc' = "reactFiles"
  /\ UNCHANGED hlVars
  /\ UNCHANGED <<given, got, mode, config, plugins, regLog, hook, ret, ncalls,
                 trace, fs, content, local, docs, err, out>>

\* generateComponentDocs, one iteration of the loop over the .jsx/.tsx files
ReactFile ==
  /\ pc = "reactFiles" /\ idx <= Len(fs.react)
  /\ LET f == fs.react[idx]
     IN /\ trace' = Append(trace, FileEvent("react", f))
        /\ IF f.fault = "throws"
           THEN FileFailed("reactFiles")
           ELSE /\ local' = Append(local, ReactNode(f))
                /\ idx' = idx + 1
                /\ UNCHANGED <<pc, hook, content, err>>
  /\ UNCHANGED hlVars
  /\ UNCHANGED <<given, got, mode, config, plugins, regLog, ret, ncalls, fs,
                 docs, out>>

\* generateComponentDocs returns; generate: docs.push(...componentDocs)
ComponentsDone ==
  /\ pc = "reactFiles" /\ idx > Len(fs.react)
  /\ docs' = pushAll(docs, local)
  /\ local' = <<>>
  /\ idx' = 1
  /\ pc' = "beforeGenerate"
  /\ UNCHANGED hlVars
  /\ UNCHANGED <<given, got, mode, config, plugins, regLog, hook, ret, ncalls,
                 trace, fs, content, err, out>>

\* ------------------------------------------------------------ Site Builder
\* the output file of a Document Node: doc.path.replace(/\.md$/, '.html')
HtmlPath(doc) == ReplaceExt(doc.path, {"md"}, "html")

\* content of an output file: the page of the n-th Document Node, the search
\* index of n nodes, or an asset
Data(kind, n) == [kind |-> kind, n |-> n]

\* fs.writeFile: the file is created or its content replaced
WriteFileKeepsOld(o, file, data) ==
  IF \E e \in o : e.file = file THEN o
  ELSE o \cup {[file |-> file, data |-> data]}
WriteFile(o, file, data) ==
  {e \in o : e.file # file} \cup {[file |-> file, data |-> data]}

RECURSIVE generateHtmlFiles(_, _, _)
\* for (const doc of docs) { ... await fs.writeFile(htmlPath, html) }
generateHtmlFiles(o, ds, k) ==
  IF k > Len(ds) THEN o
  ELSE generateHtmlFiles(WriteFile(o, HtmlPath(ds[k]), Data("page", k)), ds,
                         k + 1)

SearchIndexFile == Path(<<>>, "search-index", "json")
StyleFile == Path(<<"assets">>, "style", "css")
ScriptFile == Path(<<"assets">>, "main", "js")

\* what an earlier build left under the output root
StaleOut ==
  {[file |-> Path(<<>>, "old", "html"), data |-> Data("page", 0)],
   [file |-> StyleFile, data |-> Data("asset", 0)]}

\* fs.emptyDir(config.outDir)
emptyDirKeeps(o) == o
emptyDir(o) == {}

\* an entry of the history: buildSite starts / has written the output tree
BuildEvent(what) ==
  [ev |-> "buildSite", kind |-> what, who |-> "", file |-> ""]

\* ------------------------------------------------- build / generate command
\* mergeConfig(defaultConfig, userConfig): defaultConfig.plugins is empty
mergeConfig(user) == [user EXCEPT !.plugins = <<>> \o @]

\* loadConfig: the user configuration merged with the defaults and resolved,
\* or an exception when the configuration file cannot be imported
LoadConfig ==
  /\ pc = "loadConfig"
  /\ \/ /\ config' = resolveConfig(mergeConfig(config))
        /\ pc' = "registerBatch"
        /\ UNCHANGED err
     \/ /\ pc' = "exit1"
        /\ err' = "loadConfig"
        /\ UNCHANGED config
  /\ UNCHANGED hlVars
  /\ UNCHANGED <<given, got, mode, plugins, regLog, hook, ret, ncalls, trace>>
  /\ UNCHANGED genVars

\* new PluginManager(); registerBatch(config.plugins); configResolved(config)
InitPluginsRunsConfig ==
  /\ pc = "registerBatch"
  /\ plugins' = registerAll(<<>>, config.plugins)
  /\ regLog' = config.plugins
  /\ hook' = NewHook("config", config, "")
  /\ pc' = "configResolved"
  /\ UNCHANGED hlVars
  /\ UNCHANGED <<given, got, mode, config, ret, ncalls, trace, err>>
  /\ UNCHANGED genVars
InitPlugins ==
  /\ pc = "registerBatch"
  /\ plugins' = registerAll(<<>>, config.plugins)
  /\ regLog' = config.plugins
  /\ hook' = NewHook("configResolved", config, "")
  /\ pc' = "configResolved"
  /\ UNCHANGED hlVars
  /\ UNCHANGED <<given, got, mode, config, ret, ncalls, trace, err>>
  /\ UNCHANGED genVars

\* the GenerateContext built by DocGenerator.generate
Context == [config |-> config,
            files |-> [k \in 1..Len(docs) |-> docs[k].path],
            docs |-> docs]

\* the argument of the hook run the command makes at position p
HookInput(p) ==
  IF p \in {"beforeGenerate", "afterGenerate"} THEN Context ELSE config

\* await pluginManager.beforeBuild / beforeGenerate / afterGenerate /
\* afterBuild
CallHook ==
  /\ pc \in {"beforeBuild", "beforeGenerate", "afterGenerate", "afterBuild"}
  /\ ~Running
  /\ hook' = NewHook(pc, HookInput(pc), "")
  /\ UNCHANGED hlVars
  /\ UNCHANGED <<given, got, mode, pc, config, plugins, regLog, ret, ncalls,
                 trace, err>>
  /\ UNCHANGED genVars

\* createMarkdownProcessor, new DocGenerator, entry of generate()
StartGenerate ==
  /\ pc = "createMarkdownProcessor"
  /\ docs' = <<>>
  /\ local' = <<>>
  /\ idx' = 1
  /\ pc' = "generateMarkdownDocs"
  /\ UNCHANGED hlVars
  /\ UNCHANGED <<given, got, mode, config, plugins, regLog, hook, ret, ncalls,
                 trace, fs, content, err, out>>

\* buildSite, first step: fs.emptyDir(config.outDir)
BuildSiteStart ==
  /\ pc = "buildSite"
  /\ trace' = Append(trace, BuildEvent("start"))
  /\ \/ /\ out' = emptyDir(out)
        /\ pc' = "generateHtmlFiles"
        /\ UNCHANGED err
     \/ /\ pc' = "exit1"
        /\ err' = "buildSite"
        /\ UNCHANGED out
  /\ UNCHANGED hlVars
  /\ UNCHANGED <<given, got, mode, config, plugins, regLog, hook, ret, ncalls,
                 fs, idx, content, local, docs>>

\* buildSite, the rest: generateHtmlFiles, generateSearchIndex, copyAssets
BuildSiteFinish ==
  /\ pc = "generateHtmlFiles"
  /\ \/ /\ out' = WriteFile(WriteFile(WriteFile(
                    generateHtmlFiles(out, docs, 1),
                    SearchIndexFile, Data("index", Len(docs))),
                    StyleFile, Data("asset", 1)),
                    ScriptFile, Data("asset", 2))
        /\ trace' = Append(trace, BuildEvent("end"))
        /\ pc' = "afterBuild"
        /\ UNCHANGED err
     \/ /\ pc' = "exit1"
        /\ err' = "buildSite"
        /\ UNCHANGED <<out, trace>>
  /\ UNCHANGED hlVars
  /\ UNCHANGED <<given, got, mode, config, plugins, regLog, hook, ret, ncalls,
                 fs, idx, content, local, docs>>

\* the plugins a configuration file lists: those of the pool with a hook
ConfiguredPlugins == {p \in PluginPool : p.hooks # {}}

PluginLists ==
  UNION {[1..n -> ConfiguredPlugins] : n \in 0..MaxPlugins}

Init ==
  /\ mode \in {"build", "generate"}
  /\ pc = "loadConfig"
  /\ \E ps \in PluginLists : config = DocsConfig(ps)
  /\ plugins = <<>>
  /\ regLog = <<>>
  /\ hook = NoHook
  /\ ret = NoRet
  /\ ncalls = 0
  /\ trace = <<>>
  /\ \E S \in SUBSET AllFiles : Cardinality(S) <= MaxFiles /\ fs = Listing(S)
  /\ idx = 1
  /\ content = <<>>
  /\ local = <<>>
  /\ docs = <<>>
  /\ err = "none"
  /\ out = StaleOut
  /\ given = <<>>
  /\ got = <<>>
  /\ highlighter = Null
  /\ callers = <<>>

Next ==
  \/ LoadConfig
  \/ InitPlugins
  \/ CallHook
  \/ StartGenerate
  \/ MarkdownFile
  \/ MarkdownRender
  \/ MarkdownDone
  \/ ApiFile
  \/ ApiDone
  \/ VueFile
  \/ VueDone
  \/ ReactFile
  \/ ComponentsDone
  \/ BuildSiteStart
  \/ BuildSiteFinish
  \/ HookRunner

Spec == Init /\ [][Next]_vars

\* ================================================================= claims
\* the plugins of ps that define hook `kind`, in the order of ps
Definers(ps, kind) == SelectSeq(ps, LAMBDA p : kind \in p.hooks)

Names(ps) == [k \in 1..Len(ps) |-> ps[k].name]

\* the running value a chained hook run holds after a hook returned r
Chained(kind, v, r) ==
  CASE kind = "transformMarkdown" -> r
    [] kind = "config" -> IF r = Void THEN v ELSE r
    [] OTHER -> v

RECURSIVE ChainValue(_, _, _, _)
\* the running value after the first k calls of a hook run settled
ChainValue(kind, input, calls, k) ==
  IF k = 0 THEN input
  ELSE LET prev == ChainValue(kind, input, calls, k - 1)
       IN Chained(kind, prev, HookResult(plugins[calls[k].idx], kind, prev))

RECURSIVE RefCalls(_, _, _)
\* the invocations (plugin, argument) of a hook run over plugins that all
\* define the hook
RefCalls(ps, kind, v) ==
  IF ps = <<>> THEN <<>>
  ELSE <<[name |-> Head(ps).name, arg |-> v]>> \o
       RefCalls(Tail(ps), kind,
                Chained(kind, v, HookResult(Head(ps), kind, v)))

RECURSIVE Compose(_, _, _)
\* the left-to-right composition of the hooks `kind` of ps applied to v
Compose(ps, kind, v) ==
  IF ps = <<>> THEN v
  ELSE Compose(Tail(ps), kind, Chained(kind, v, HookResult(Head(ps), kind, v)))

IsCall(e, kind) == e.ev = "call" /\ e.kind = kind

\* the invocations of hook `kind` in the first n entries of the history
CallsOf(kind, n) == SelectSeq(SubSeq(trace, 1, n), LAMBDA e : IsCall(e, kind))

WhoOf(q) == [k \in 1..Len(q) |-> q[k].who]

IsPrefix(a, b) == Len(a) <= Len(b) /\ a = SubSeq(b, 1, Len(a))

\* C1: whatever was registered, by register or registerBatch, a hook run
\* invokes the plugins that define the hook in the order of registration,
\* once per registration: at every point of the run the invocations made so
\* far are the definers among the plugins the loop has passed, in
\* registration order
C1_RegistrationOrder ==
  Running =>
    /\ hook.i - 1 <= Len(regLog)
    /\ [k \in 1..Len(hook.calls) |-> hook.calls[k].name]
         = Names(Definers(SubSeq(regLog, 1, hook.i - 1), hook.kind))

\* a run over two different plugins that define the hook has finished its loop
C1_Witness ==
  /\ Running /\ hook.i > Len(plugins)
  /\ Len(hook.calls) = 2
  /\ hook.calls[1].name # hook.calls[2].name

\* C2: during a hook run at most one hook invocation is in flight, and an
\* invocation is made only when every earlier invocation of the run is over
C2_Sequential ==
  /\ Running => Cardinality(hook.inflight) <= 1
  /\ \A k \in 1..Len(trace) :
       trace[k].ev = "call" =>
         Len(SelectSeq(SubSeq(trace, 1, k - 1), LAMBDA e : e.ev = "call"))
           = Len(SelectSeq(SubSeq(trace, 1, k - 1),
                           LAMBDA e : e.ev \in {"end", "throw"}))

\* the second plugin's hook is in flight after the first one's completed
C2_Witness ==
  /\ Running
  /\ Len(hook.calls) = 2
  /\ Cardinality(hook.inflight) = 1

\* C3: config(c) hands each config hook the running value, which starts as c
\* and is replaced by a hook's result only when the hook returns one, and
\* returns the final running value
C3_ConfigChain ==
  /\ (Running /\ hook.kind = "config") =>
       /\ \A k \in 1..Len(hook.calls) :
            hook.calls[k].arg
              = ChainValue("config", hook.input, hook.calls, k - 1)
       /\ hook.inflight = {} =>
            hook.result
              = ChainValue("config", hook.input, hook.calls, Len(hook.calls))
  /\ (ret.status = "returned" /\ ret.kind = "config") =>
       ret.value = ChainValue("config", ret.input, ret.calls, Len(ret.calls))

\* config() returned after a hook that replaced the configuration and then a
\* hook that returned nothing: the result is the first hook's replacement
C3_Witness ==
  /\ ret.status = "returned" /\ ret.kind = "config"
  /\ Len(ret.calls) = 2
  /\ ret.calls[1].name = "pAll" /\ ret.calls[2].name = "pMix"
  /\ ret.value = [ret.input EXCEPT !.touched = <<"pAll">>]

\* the text of the composition of all registered transformMarkdown hooks
\* applied to the raw text of prose file f
Transformed(f) ==
  Compose(Definers(regLog, "transformMarkdown"), "transformMarkdown", f.text)

\* C4: for every prose file each transformMarkdown hook receives the previous
\* hook's output (the first one the raw text) and the path of the file, the
\* text handed to the renderer is the composition of all the hooks applied to
\* the raw text (the raw text itself when there is no hook), and the node
\* pushed holds the rendering of that text
C4_TransformChain ==
  /\ (Running /\ hook.kind = "transformMarkdown") =>
       \A k \in 1..Len(hook.calls) :
         /\ hook.calls[k].file = fs.md[idx].name
         /\ hook.calls[k].arg
              = ChainValue("transformMarkdown", fs.md[idx].text, hook.calls,
                           k - 1)
  /\ pc = "render" =>
       /\ ret.value = Transformed(fs.md[idx])
       /\ Definers(regLog, "transformMarkdown") = <<>> =>
            ret.value = fs.md[idx].text
  /\ \A n \in Range(local) \cup Range(docs) :
       n.type = "markdown" =>
         \E f \in Range(fs.md) :
           n.path = f.rel /\ n.content = Render(Transformed(f))

\* a prose file went through the hooks of two different plugins and its text
\* is about to be rendered
C4_Witness ==
  /\ pc = "render"
  /\ Len(ret.calls) = 2
  /\ ret.calls[1].name # ret.calls[2].name
  /\ ret.value # fs.md[idx].text

\* C5: a plugin that does not define the hook is passed over: no hook run
\* fails with a TypeError, only plugins that define the hook are invoked, the
\* invocations and their arguments are those of a run over the defining
\* plugins alone, and a run in which no plugin was invoked returns, for the
\* transform hooks with its input as result
C5_AbsentHookIsNoOp ==
  /\ ret.status = "threw" =>
       /\ ret.cause = "plugin"
       /\ Definers(plugins, ret.kind) # <<>>
  /\ Running =>
       /\ \A k \in 1..Len(hook.calls) :
            hook.kind \in plugins[hook.calls[k].idx].hooks
       /\ [k \in 1..Len(hook.calls) |->
             [name |-> hook.calls[k].name, arg |-> hook.calls[k].arg]]
            = RefCalls(Definers(SubSeq(plugins, 1, hook.i - 1), hook.kind),
                       hook.kind, hook.input)
  /\ (ret.status = "returned" /\ ret.calls = <<>>
        /\ ret.kind \in {"config", "transformMarkdown"}) =>
       ret.value = ret.input

\* a run returned in which the first plugin lacks the hook and was passed
\* over and the second plugin's hook was invoked
C5_Witness ==
  /\ ret.status = "returned"
  /\ Len(plugins) = 2
  /\ ret.kind \notin plugins[1].hooks
  /\ Len(ret.calls) = 1
  /\ ret.calls[1].idx = 2

\* C6: in DocGenerator.generate every beforeGenerate hook is invoked before
\* any source file is taken up and every afterGenerate hook after all files
C6_GenerateHooksBracket ==
  \A i, j \in 1..Len(trace) :
    trace[j].ev = "file" =>
      /\ IsCall(trace[i], "beforeGenerate") => i < j
      /\ IsCall(trace[i], "afterGenerate") => j < i

\* C7: in a build run buildSite starts only when every beforeBuild hook has
\* been invoked and has completed, an afterBuild hook is invoked only after
\* buildSite has written the output tree, and no afterBuild hook is invoked
\* in a run that failed in generation or in buildSite
C7_BuildHooksBracket ==
  mode = "build" =>
    /\ \A i \in 1..Len(trace) :
         trace[i] = BuildEvent("start") =>
           /\ \A j \in 1..Len(trace) : trace[j].kind = "beforeBuild" => j < i
           /\ WhoOf(CallsOf("beforeBuild", i))
                = Names(Definers(regLog, "beforeBuild"))
           /\ Len(CallsOf("beforeBuild", i))
                = Len(SelectSeq(SubSeq(trace, 1, i),
                        LAMBDA e : e.ev = "end" /\ e.kind = "beforeBuild"))
    /\ \A j \in 1..Len(trace) :
         IsCall(trace[j], "afterBuild") =>
           \E i \in 1..(j - 1) : trace[i] = BuildEvent("end")
    /\ err \in {"file", "beforeGenerate", "afterGenerate", "buildSite"} =>
         CallsOf("afterBuild", Len(trace)) = <<>>

\* a build with a Document Node finished in which a beforeBuild and an
\* afterBuild hook were invoked around buildSite
C7_Witness ==
  /\ mode = "build" /\ pc = "done"
  /\ Len(docs) >= 1
  /\ CallsOf("beforeBuild", Len(trace)) # <<>>
  /\ CallsOf("afterBuild", Len(trace)) # <<>>

\* C8: in a build or generate run the configResolved hooks are invoked with
\* the resolved configuration, never more than once per registered plugin,
\* and when a hook of another kind is invoked or the run is done every
\* registered configResolved hook has been invoked exactly once
C8_ConfigResolvedOnce ==
  /\ (Running /\ hook.kind = "configResolved") =>
       \A k \in 1..Len(hook.calls) :
         hook.calls[k].arg = config /\ hook.calls[k].arg.resolved
  /\ IsPrefix(WhoOf(CallsOf("configResolved", Len(trace))),
              Names(Definers(regLog, "configResolved")))
  /\ \A j \in 1..Len(trace) :
       (trace[j].ev = "call" /\ trace[j].kind # "configResolved") =>
         WhoOf(CallsOf("configResolved", j - 1))
           = Names(Definers(regLog, "configResolved"))
  /\ pc = "done" =>
       WhoOf(CallsOf("configResolved", Len(trace)))
         = Names(Definers(regLog, "configResolved"))

\* a run is done in which the configResolved hooks of two different plugins
\* were invoked, followed by a hook of another kind
C8_Witness ==
  /\ pc = "done"
  /\ Len(CallsOf("configResolved", Len(trace))) = 2
  /\ CallsOf("configResolved", Len(trace))[1].who
       # CallsOf("configResolved", Len(trace))[2].who
  /\ CallsOf("afterGenerate", Len(trace)) # <<>>

\* the processing of file f of category cat raised: reading or parsing it
\* throws, or a transformMarkdown hook threw while it was processed
Threw(cat, f) ==
  \/ f.fault = "throws"
  \/ /\ cat = "md"
     /\ \E k \in 1..Len(trace) :
          /\ trace[k].ev = "throw"
          /\ trace[k].kind = "transformMarkdown"
          /\ trace[k].file = f.name

\* all categories have been processed
GenerationOver ==
  \/ pc \in {"beforeGenerate", "afterGenerate", "buildSite",
             "generateHtmlFiles", "afterBuild", "done"}
  \/ pc = "exit1" /\ err \in {"beforeGenerate", "afterGenerate", "buildSite",
                              "afterBuild"}

PathsOf(ds) == [k \in 1..Len(ds) |-> ds[k].path]

\* the paths of the Document Nodes of the files that satisfy Yields, in the
\* order of processing
NodePaths(Yields(_, _)) ==
  LET md == SelectSeq(fs.md, LAMBDA f : Yields("md", f))
      api == SelectSeq(fs.api, LAMBDA f : Yields("api", f))
      vue == SelectSeq(fs.vue, LAMBDA f : Yields("vue", f))
      react == SelectSeq(fs.react, LAMBDA f : Yields("react", f))
  IN [k \in 1..Len(md) |-> MarkdownNode(md[k], md[k].text).path]
       \o [k \in 1..Len(api) |-> ApiNode(api[k]).path]
       \o [k \in 1..Len(vue) |-> VueNode(vue[k]).path]
       \o [k \in 1..Len(react) |-> ReactNode(react[k]).path]

NotThrew(cat, f) == ~Threw(cat, f)
NotThrewNotEmpty(cat, f) == ~Threw(cat, f) /\ f.fault # "empty"

\* C9 as claimed: no file failure stops the run, and when generation is over
\* there is a Document Node for every file whose processing did not raise
C9_NodeForEveryOtherFile ==
  /\ err # "file"
  /\ GenerationOver => PathsOf(docs) = NodePaths(NotThrew)

\* C9 as amended: no file failure stops the run, and when generation is over
\* there is a Document Node for every file whose processing did not raise,
\* except the annotation files in which no declaration was found
C9_NodeForEveryProductiveFile ==
  /\ err # "file"
  /\ GenerationOver => PathsOf(docs) = NodePaths(NotThrewNotEmpty)

\* generation is over for a category whose first file raised and whose second
\* file gave the only Document Node
C9_Witness ==
  /\ pc = "beforeGenerate"
  /\ Len(docs) = 1
  /\ \E cat \in {"md", "api", "react"} :
       /\ Len(fs[cat]) = 2
       /\ Threw(cat, fs[cat][1])
       /\ ~Threw(cat, fs[cat][2])

\* C10: no two Document Nodes of a generation pass have the same path
C10_UniquePaths ==
  \A i, j \in 1..Len(docs) : i # j => docs[i].path # docs[j].path

\* C11: the page of an annotation or component Document Node is never the
\* page of a prose Document Node
C11_DisjointPages ==
  \A i, j \in 1..Len(docs) :
    (docs[i].type = "markdown" /\ docs[j].type \in {"api", "component"}) =>
      HtmlPath(docs[i]) # HtmlPath(docs[j])

\* the Document Nodes of the files that satisfy Yields, in processing order
NodesOf(Yields(_, _)) ==
  LET md == SelectSeq(fs.md, LAMBDA f : Yields("md", f))
      api == SelectSeq(fs.api, LAMBDA f : Yields("api", f))
      vue == SelectSeq(fs.vue, LAMBDA f : Yields("vue", f))
      react == SelectSeq(fs.react, LAMBDA f : Yields("react", f))
  IN [k \in 1..Len(md) |-> MarkdownNode(md[k], Transformed(md[k]))]
       \o [k \in 1..Len(api) |-> ApiNode(api[k])]
       \o [k \in 1..Len(vue) |-> VueNode(vue[k])]
       \o [k \in 1..Len(react) |-> ReactNode(react[k])]

\* buildSite has returned
BuildSiteCompleted == \E i \in 1..Len(trace) : trace[i] = BuildEvent("end")

\* the positions in the node list of the nodes whose page is `file`
NodesAt(file) == {k \in 1..Len(docs) : HtmlPath(docs[k]) = file}

\* C12: the node list and the output tree are functions of the inputs (the
\* files in enumeration order, the plugins, the files a hook rejects): the
\* list holds the nodes of the files in processing order, every node has a
\* page, and the page left at an output file is that of the last node of the
\* list that resolves to the file
C12_Deterministic ==
  /\ GenerationOver => docs = NodesOf(NotThrewNotEmpty)
  /\ BuildSiteCompleted =>
       /\ \A k \in 1..Len(docs) :
            \E e \in out : e.file = HtmlPath(docs[k]) /\ e.data.kind = "page"
       /\ \A e \in out :
            e.data.kind = "page" =>
              /\ NodesAt(e.file) # {}
              /\ \A k \in NodesAt(e.file) : k <= e.data.n
              /\ e.data.n \in NodesAt(e.file)

\* a build has written the pages of two nodes that resolve to one file, and
\* the file holds the page of the second
C12_Witness ==
  /\ BuildSiteCompleted
  /\ \E e \in out :
       /\ e.data.kind = "page"
       /\ Cardinality(NodesAt(e.file)) = 2
       /\ e.data.n = 2

\* C13: once emptyDir has run no file of an earlier build is left; once
\* buildSite has returned the output root holds exactly the pages of the
\* nodes, search-index.json, assets/style.css and assets/main.js, the two
\* assets with the content this build generated
C13_ExactOutputTree ==
  /\ pc = "generateHtmlFiles" => out = {}
  /\ BuildSiteCompleted =>
       /\ {e.file : e \in out}
            = {HtmlPath(docs[k]) : k \in 1..Len(docs)}
                \cup {SearchIndexFile, StyleFile, ScriptFile}
       /\ out \cap StaleOut = {}
       /\ [file |-> StyleFile, data |-> Data("asset", 1)] \in out
       /\ [file |-> ScriptFile, data |-> Data("asset", 2)] \in out

\* a build of two nodes has returned: four or five files, none of them old
C13_Witness ==
  /\ BuildSiteCompleted
  /\ Len(docs) = 2
  /\ Cardinality(out) \in {4, 5}
  /\ \A e \in out : e.file # Path(<<>>, "old", "html")

\* the k-th prose file has been dealt with
MarkdownProcessed(k) ==
  \/ GenerationOver
  \/ pc \in {"generateApiDocs", "vueFiles", "reactFiles"}
  \/ pc \in {"generateMarkdownDocs", "transformMarkdown", "render"} /\ k < idx

\* C14: when the renderer raises on the text of a prose file, render returns
\* the placeholder that holds the error message, the file still gets a
\* Document Node whose content is that placeholder, and the run does not
\* stop: no file makes the command fail, and when generation is over every
\* prose file that raised nowhere else has its node
C14_RenderFailurePlaceholder ==
  /\ (pc = "render" /\ mdRender(ret.value).html = "threw") =>
       Render(ret.value)
         = [html |-> "placeholder",
            of |-> <<"Error rendering markdown">> \o mdRender(ret.value).of]
  /\ \A k \in 1..Len(fs.md) :
       (/\ MarkdownProcessed(k)
        /\ ~Threw("md", fs.md[k])
        /\ mdRender(Transformed(fs.md[k])).html = "threw") =>
         \E n \in Range(local) \cup Range(docs) :
           /\ n.path = fs.md[k].rel
           /\ n.content.html = "placeholder"
           /\ n.content.of
                = <<"Error rendering markdown">>
                    \o mdRender(Transformed(fs.md[k])).of
  /\ err # "file"
  /\ GenerationOver =>
       \A f \in Range(fs.md) :
         ~Threw("md", f) => \E n \in Range(docs) : n.path = f.rel

\* generation is over: the first prose file made the renderer raise and has a
\* placeholder node, the second was rendered after it
C14_Witness ==
  /\ GenerationOver
  /\ Len(docs) = 2
  /\ docs[1].content.html = "placeholder"
  /\ docs[2].content.html = "markdown"

\* the title C15 gives the node of prose file f
TitleByPriority(f) ==
  IF f.fmTitle # "" THEN Verbatim(f.fmTitle)
  ELSE IF f.heading # "" THEN Verbatim(f.heading)
  ELSE getTitleFromPath(f.rel)

\* C15: the title of a prose Document Node is the title of the front matter
\* when there is a non-empty one, else the text of the heading of the
\* document when it has one, else the humanized file name
C15_TitlePriority ==
  \A n \in Range(local) \cup Range(docs) :
    n.type = "markdown" =>
      \A f \in Range(fs.md) : n.path = f.rel => n.title = TitleByPriority(f)

\* ======================================================= unit specifications
\* A unit specification hands one argument (`given`) to one function of the
\* program and records what it returns (`got`); the other variables rest.
UnitInit(fn) ==
  /\ mode = fn
  /\ pc = "entry"
  /\ config = DocsConfig(<<>>)
  /\ plugins = <<>>
  /\ regLog = <<>>
  /\ hook = NoHook
  /\ ret = NoRet
  /\ ncalls = 0
  /\ trace = <<>>
  /\ fs = NoFiles
  /\ idx = 1
  /\ content = <<>>
  /\ local = <<>>
  /\ docs = <<>>
  /\ err = "none"
  /\ out = {}
  /\ got = <<>>
  /\ highlighter = Null
  /\ callers = <<>>

\* the function returns `value`
UnitReturn(value) ==
  /\ pc = "entry"
  /\ got' = value
  /\ pc' = "return"
  /\ UNCHANGED hlVars
  /\ UNCHANGED <<given, mode, config, plugins, regLog, hook, ret, ncalls,
                 trace, fs, idx, content, local, docs, err, out>>

\* the sequences over S of length at most n
SeqUpTo(S, n) == UNION {[1..k -> S] : k \in 0..n}

Min(S) == CHOOSE x \in S : \A y \in S : x <= y

\* ------------------------------------------------- strings as char sequences
\* String.prototype.trim
RECURSIVE trimStart(_)
trimStart(s) ==
  IF s # <<>> /\ Head(s) = " " THEN trimStart(Tail(s)) ELSE s
RECURSIVE trimEnd(_)
trimEnd(s) ==
  IF s # <<>> /\ s[Len(s)] = " " THEN trimEnd(SubSeq(s, 1, Len(s) - 1)) ELSE s
trim(s) == trimEnd(trimStart(s))

RECURSIVE split(_, _)
\* String.prototype.split(sep), sep one character
split(s, sep) ==
  LET hits == {k \in 1..Len(s) : s[k] = sep}
  IN IF hits = {} THEN <<s>>
     ELSE <<SubSeq(s, 1, Min(hits) - 1)>>
            \o split(SubSeq(s, Min(hits) + 1, Len(s)), sep)

\* Array.prototype.join(sep)
joinFirstOnly(parts, sep) == IF parts = <<>> THEN <<>> ELSE parts[1]
RECURSIVE join(_, _)
join(parts, sep) ==
  IF parts = <<>> THEN <<>>
  ELSE IF Len(parts) = 1 THEN parts[1]
  ELSE parts[1] \o <<sep>> \o join(Tail(parts), sep)

\* ------------------------------------------ DocGenerator.extractFrontmatter
\* largest number of lines between the first line of a prose file and its
\* last line
MaxLines == 2

Dashes == <<"-", "-", "-">>
StartsWithDashes(line) == Len(line) >= 3 /\ SubSeq(line, 1, 3) = Dashes

\* value.replace(/^['"]|['"]$/g, ''): a quote at the start and a quote at the
\* end of what is left are removed
IsQuote(c) == c \in {"'", "\""}
stripQuotes(s) ==
  LET a == IF s # <<>> /\ IsQuote(Head(s)) THEN Tail(s) ELSE s
  IN IF a # <<>> /\ IsQuote(a[Len(a)]) THEN SubSeq(a, 1, Len(a) - 1) ELSE a

\* content.match(/^---\n([\s\S]+?)\n---/) on the lines of the content: the
\* first line is ---, and the block ends before the first later line that
\* starts with --- and leaves a non-empty block; <<block>> or <<>> (null)
frontmatterMatch(lines) ==
  LET ends == {k \in 3..Len(lines) :
                 /\ StartsWithDashes(lines[k])
                 /\ join(SubSeq(lines, 2, k - 1), "\n") # <<>>}
  IN IF Len(lines) >= 2 /\ lines[1] = Dashes /\ ends # {}
     THEN <<SubSeq(lines, 2, Min(ends) - 1)>>
     ELSE <<>>

\* the body of the forEach callback for one line: the accumulator {title,
\* meta} after the line; meta holds [key, value] entries, one per key
frontmatterLine(acc, line) ==
  LET parts == split(line, ":")
      key == Head(parts)
      valueParts == Tail(parts)
      value == trim(join(valueParts, ":"))
      trimmedKey == trim(key)
  IN IF key # <<>> /\ Len(valueParts) > 0
     THEN IF trimmedKey = <<"title">>
          THEN [acc EXCEPT !.title = stripQuotes(value)]
          ELSE [acc EXCEPT !.meta =
                  {e \in @ : e.key # trimmedKey}
                    \cup {[key |-> trimmedKey, value |-> stripQuotes(value)]}]
     ELSE acc

RECURSIVE frontmatterLines(_, _)
\* frontmatter.split('\n').forEach(...)
frontmatterLines(acc, lines) ==
  IF lines = <<>> THEN acc
  ELSE frontmatterLines(frontmatterLine(acc, Head(lines)), Tail(lines))

\* extractFrontmatter(content): {title: ''} without a block, else {title, meta}
extractFrontmatter(lines) ==
  IF frontmatterMatch(lines) = <<>> THEN [title |-> <<>>]
  ELSE frontmatterLines([title |-> <<>>, meta |-> {}], frontmatterMatch(lines)[1])

\* the lines the prose files are made of: a key, and a colon and a value or
\* nothing after it
FmKeys ==
  {<<"title">>, <<" ", "title", " ">>, <<"a">>, <<"b", " ">>, <<>>, Dashes}
FmValues ==
  {<<" ", "x">>, <<" ", "x", ":", "y", " ">>, <<" ", "'", "x", "'">>,
   <<"\"", "x", " ", "y">>, <<"'">>, <<>>}
FmLines ==
  FmKeys \cup {k \o <<":">> \o v : k \in FmKeys, v \in FmValues}

\* the prose files: a first line, up to MaxLines lines, a last line or none
FmContents ==
  {<<first>> \o body \o last :
     first \in {Dashes, <<"#", " ", "x">>},
     body \in SeqUpTo(FmLines, MaxLines),
     last \in {<<Dashes>>, <<>>}}

InitFrontmatter ==
  /\ UnitInit("extractFrontmatter")
  /\ given \in FmContents

ExtractFrontmatter == UnitReturn(extractFrontmatter(given))

NextFrontmatter == ExtractFrontmatter

SpecFrontmatter == InitFrontmatter /\ [][NextFrontmatter]_vars

\* the lines of the front-matter block of the given file that read key: value
FmBlock == frontmatterMatch(given)[1]
FirstColon(line) == Min({k \in 1..Len(line) : line[k] = ":"})
IsKeyValue(line) ==
  (\E k \in 1..Len(line) : line[k] = ":") /\ FirstColon(line) > 1
KeyOf(line) == trim(SubSeq(line, 1, FirstColon(line) - 1))
\* the whole text after the first colon, trimmed
TextAfterColon(line) == trim(SubSeq(line, FirstColon(line) + 1, Len(line)))
\* the last key: value line of the block with key k
LastWithKey(k) ==
  FmBlock[CHOOSE i \in 1..Len(FmBlock) :
            /\ IsKeyValue(FmBlock[i]) /\ KeyOf(FmBlock[i]) = k
            /\ \A j \in (i + 1)..Len(FmBlock) :
                 ~(IsKeyValue(FmBlock[j]) /\ KeyOf(FmBlock[j]) = k)]
FmBlockKeys == {KeyOf(l) : l \in {x \in Range(FmBlock) : IsKeyValue(x)}}

\* what extractFrontmatter returns when a line's value is ValueOf(line)
FrontmatterIs(ValueOf(_)) ==
  IF frontmatterMatch(given) = <<>> THEN got.title = <<>>
  ELSE /\ got.title = IF <<"title">> \in FmBlockKeys
                      THEN ValueOf(LastWithKey(<<"title">>))
                      ELSE <<>>
       /\ {e.key : e \in got.meta} = FmBlockKeys \ {<<"title">>}
       /\ \A e \in got.meta : e.value = ValueOf(LastWithKey(e.key))
       /\ \A e1, e2 \in got.meta : e1.key = e2.key => e1 = e2

\* C16 as claimed: the title is the value of the title line, every other
\* key: value line sets metadata[key] to the whole text after its first colon,
\* trimmed; title is no key of the metadata; a file without a front-matter
\* block gives an empty title
C16_FrontmatterAsClaimed ==
  pc = "return" => FrontmatterIs(TextAfterColon)

UnquotedTextAfterColon(line) == stripQuotes(TextAfterColon(line))

\* C16 as amended: the same, the value of a line being the whole text after
\* its first colon, trimmed, without one quote at its start and one at its end
C16_FrontmatterUnquoted ==
  pc = "return" => FrontmatterIs(UnquotedTextAfterColon)

\* a block of two lines was read: a title whose value holds a second colon,
\* and one other key
C16_Witness ==
  /\ pc = "return"
  /\ frontmatterMatch(given) # <<>>
  /\ got.title = <<"x", ":", "y">>
  /\ got.meta = {[key |-> <<"a">>, value |-> <<"x">>]}
  /\ Len(FmBlock) = 2

\* ------------------------------------------------------ generateSearchIndex
\* largest number of Document Nodes handed to generateSearchIndex
MaxDocs == 2
\* content.substring(0, 500)
ContentLimit == 500

\* HTML is a sequence of characters and of tags; a tag is one element
ScriptTags == [open |-> "<script>", close |-> "</script>"]
StyleTags == [open |-> "<style>", close |-> "</style>"]
HeadingOpen == {"<h1>", "<h2>"}
HeadingClose == {"</h1>", "</h2>"}
IsTag(t) ==
  t \in {"<p>", "</p>", ScriptTags.open, ScriptTags.close, StyleTags.open,
         StyleTags.close} \cup HeadingOpen \cup HeadingClose

RECURSIVE removeElements(_, _)
\* .replace(/<script\b[^<]*(?:(?!<\/script>)<[^<]*)*<\/script>/gi, ''), and
\* the same for style: every stretch from an opening tag to the first closing
\* tag after it is removed
removeElements(html, tags) ==
  LET opens == {k \in 1..Len(html) : html[k] = tags.open}
      closes == {k \in 1..Len(html) : html[k] = tags.close /\ k > Min(opens)}
  IN IF opens = {} \/ closes = {} THEN html
     ELSE SubSeq(html, 1, Min(opens) - 1)
            \o removeElements(SubSeq(html, Min(closes) + 1, Len(html)), tags)

\* .replace(/<[^>]+>/g, '')
removeTags(html) == SelectSeq(html, LAMBDA t : ~IsTag(t))

\* .replace(/\s+/g, ' '): of a run of white space only the first stays
collapseSpace(s) ==
  SelectSeq([k \in 1..Len(s) |->
               IF s[k] = " " /\ k > 1 /\ s[k - 1] = " " THEN "" ELSE s[k]],
            LAMBDA c : c # "")

stripHtml(html) ==
  trim(collapseSpace(removeTags(
    removeElements(removeElements(html, ScriptTags), StyleTags))))

\* String.prototype.substring(0, to)
substringWhole(s, to) == s
substring(s, to) == SubSeq(s, 1, IF to < Len(s) THEN to ELSE Len(s))

RECURSIVE extractHeaders(_)
\* the texts matched by /<h[1-6][^>]*>([^<]+)<\/h[1-6]>/gi, trimmed: an
\* opening heading tag, at least one character, a closing heading tag
extractHeaders(html) ==
  LET opens == {k \in 1..Len(html) : html[k] \in HeadingOpen}
      i == Min(opens)
      tags == {k \in (i + 1)..Len(html) : IsTag(html[k])}
      j == Min(tags)
  IN IF opens = {} THEN <<>>
     ELSE IF tags # {} /\ j > i + 1 /\ html[j] \in HeadingClose
     THEN <<trim(SubSeq(html, i + 1, j - 1))>>
            \o extractHeaders(SubSeq(html, j + 1, Len(html)))
     ELSE extractHeaders(SubSeq(html, i + 1, Len(html)))

\* the Search Index Item pushed for a Document Node
SearchIndexItem(doc) ==
  [id |-> doc.path, title |-> doc.title,
   content |-> substring(stripHtml(doc.content), ContentLimit),
   path |-> doc.path, headers |-> extractHeaders(doc.content)]

\* for (const doc of docs) { items.push({...}) }; writeJSON(outputPath, items)
generateSearchIndex(ds) == [k \in 1..Len(ds) |-> SearchIndexItem(ds[k])]

\* n characters of text
Text(n) == [k \in 1..n |-> "a"]

\* a Document Node whose content is the HTML given
HtmlNode(base, html) ==
  [path |-> Path(<<>>, base, "md"), title |-> Verbatim(base),
   content |-> html, type |-> "markdown"]

\* the Document Nodes the index is generated from
SearchNodes ==
  { HtmlNode("empty", <<>>),
    HtmlNode("plain", <<"<p>", " ", "a", " ", " ", "b", " ", "</p>">>),
    HtmlNode("heads",
             <<"<h1>", " ", "a", "</h1>", "<h2>", "</h2>", "<h2>", "b", "<p>",
               "c", "</p>">>),
    HtmlNode("script",
             <<"a", "<script>", "b", "<p>", "</script>", "c", "</script>">>),
    HtmlNode("style", <<"<style>", "a", "</style>", "<style>", "b">>),
    HtmlNode("short", <<"<p>">> \o Text(ContentLimit - 1) \o <<"</p>">>),
    HtmlNode("exact", <<"<p>">> \o Text(ContentLimit) \o <<"</p>">>),
    HtmlNode("long", <<"<p>">> \o Text(ContentLimit + 1) \o <<"</p>">>),
    HtmlNode("spaced",
             <<" ">> \o Text(ContentLimit - 1) \o <<" ", " ", "b", "c">>) }

InitSearch ==
  /\ UnitInit("generateSearchIndex")
  /\ given \in SeqUpTo(SearchNodes, MaxDocs)

GenerateSearchIndex == UnitReturn(generateSearchIndex(given))

NextSearch == GenerateSearchIndex

SpecSearch == InitSearch /\ [][NextSearch]_vars

\* C17: generateSearchIndex emits one item per Document Node, in the order
\* of the list; id and path are the node's path, title is the node's title,
\* content is the stripped text of the node cut after 500 characters: a
\* prefix of it without any tag, the whole of it when it is no longer
C17_SearchIndex ==
  pc = "return" =>
    /\ Len(got) = Len(given)
    /\ \A k \in 1..Len(given) :
         /\ got[k].id = given[k].path
         /\ got[k].path = given[k].path
         /\ got[k].title = given[k].title
         /\ IsPrefix(got[k].content, stripHtml(given[k].content))
         /\ Len(got[k].content) <= ContentLimit
         /\ Len(stripHtml(given[k].content)) <= ContentLimit =>
              got[k].content = stripHtml(given[k].content)
         /\ \A i \in 1..Len(got[k].content) : ~IsTag(got[k].content[i])

\* the index of two nodes was generated: the text of the first was cut, the
\* text of the second was not
C17_Witness ==
  /\ pc = "return"
  /\ Len(got) = 2
  /\ Len(got[1].content) = ContentLimit
  /\ Len(stripHtml(given[1].content)) > ContentLimit
  /\ got[2].content = <<"a", " ", "b">>

\* ------------------------------------------------------ component extractors
\* largest number of declarations in a React component file
MaxAstNodes == 2

\* a section of a single-file component: <<>> when absent, else <<content>>
Absent == <<>>
Section(c) == <<c>>

\* the content of a <script> block, as the regular expressions of the Vue
\* extractor see it:
\*   typedProps  the `name?: type` members inside defineProps<{ ... }>
\*   objectProps the `name: { ... }` entries inside props: { ... }
\*   typedEmits  the `name: [payload]` members inside defineEmits<{ ... }>
\*   emitCalls   the names in $emit('name' ...) calls
Script(typedProps, objectProps, typedEmits, emitCalls) ==
  [typedProps |-> typedProps, objectProps |-> objectProps,
   typedEmits |-> typedEmits, emitCalls |-> emitCalls]
EmptyScript == Script(<<>>, <<>>, <<>>, <<>>)

Member(name, type, question) == [name |-> name, type |-> type, question |-> question]
ObjectProp(name, type) == [name |-> name, type |-> type]
Emit(name, payload) == [name |-> name, payload |-> payload]
SlotTag(name, space, attrs) == [name |-> name, space |-> space, attrs |-> attrs]

\* descriptor.script?.content || descriptor.scriptSetup?.content || ''
scriptContent(d) ==
  IF d.script # Absent /\ d.script[1] # EmptyScript THEN d.script[1]
  ELSE IF d.scriptSetup # Absent THEN d.scriptSetup[1]
  ELSE EmptyScript

\* Array.prototype.some((x) => x.name === name)
SomeNamed(list, name) == \E k \in 1..Len(list) : list[k].name = name

RECURSIVE pushUnlessNamed(_, _)
\* for (...) { if (!list.some((x) => x.name === name)) list.push(entry) }
pushUnlessNamed(list, entries) ==
  IF entries = <<>> THEN list
  ELSE pushUnlessNamed(IF SomeNamed(list, Head(entries).name) THEN list
                       ELSE Append(list, Head(entries)),
                       Tail(entries))

\* the matches of /(\w+):\s*\{([^}]+)\}/g in the text captured by
\* /props:\s*\{([^}]+)\}/s: the captured text ends before the first `}`, every
\* match needs one, so there is none
objectPropMatches(entries) == SelectSeq(entries, LAMBDA e : FALSE)

\* extractProps
extractProps(d) ==
  IF d.script = Absent /\ d.scriptSetup = Absent THEN <<>>
  ELSE LET c == scriptContent(d)
           typed == [k \in 1..Len(c.typedProps) |->
                       [name |-> c.typedProps[k].name,
                        type |-> c.typedProps[k].type,
                        required |-> ~c.typedProps[k].question]]
           object == [k \in 1..Len(objectPropMatches(c.objectProps)) |->
                        [name |-> objectPropMatches(c.objectProps)[k].name,
                         type |-> objectPropMatches(c.objectProps)[k].type,
                         required |-> FALSE]]
       IN typed \o object

\* extractEvents
extractEvents(d) ==
  IF d.script = Absent /\ d.scriptSetup = Absent THEN <<>>
  ELSE LET c == scriptContent(d)
           calls == [k \in 1..Len(c.emitCalls) |->
                       [name |-> c.emitCalls[k], payload |-> ""]]
       IN pushUnlessNamed(c.typedEmits, calls)

\* extractSlots: the matches of /<slot\s+(?:name=["'](\w+)["'])?([^>]*)>/g
extractSlots(d) ==
  IF d.template = Absent THEN <<>>
  ELSE LET tags == SelectSeq(d.template[1], LAMBDA t : t.space)
           slots == [k \in 1..Len(tags) |->
                       [name |-> IF tags[k].name = "" THEN "default"
                                 ELSE tags[k].name,
                        scoped |-> tags[k].attrs \in {":", "v-bind"}]]
       IN pushUnlessNamed(<<>>, slots)

\* the object parseVueComponent returns
VueDescriptionWithoutSlots(name, props, events, slots) ==
  [name |-> name, props |-> props, events |-> events]
VueDescription(name, props, events, slots) ==
  [name |-> name, props |-> props, events |-> events, slots |-> slots]

parseVueComponent(file) ==
  VueDescription(file.base, extractProps(file.descriptor),
                 extractEvents(file.descriptor), extractSlots(file.descriptor))

\* a declaration babel's traverse visits: `upper` for a name that starts with
\* a capital, `propsName` for a name that ends in Props, `props` the members
\* of the type literal of the first parameter, of the first type argument of
\* the superclass, of the interface body or of the aliased type
AstNode(kind, name, upper, propsName, super, props) ==
  [kind |-> kind, name |-> name, upper |-> upper, propsName |-> propsName,
   super |-> super, props |-> props]

\* isComponentFunction: a function declaration whose name starts with a
\* capital; never an arrow function
isComponentFunction(n) == n.kind = "FunctionDeclaration" /\ n.upper

\* isComponentClass
isComponentClass(n) ==
  n.super \in {"Component", "PureComponent", "React.Component",
               "React.PureComponent"}

\* the visitors of traverse(ast, {...}): the state {componentName, props}
\* after node n
visitNode(st, n) ==
  CASE n.kind = "FunctionDeclaration" /\ isComponentFunction(n) ->
         [componentName |-> n.name, props |-> st.props \o n.props]
    [] n.kind = "VariableDeclarator" /\ isComponentFunction(n) ->
         [componentName |-> n.name, props |-> st.props \o n.props]
    [] n.kind = "ClassDeclaration" /\ isComponentClass(n) ->
         [componentName |-> n.name, props |-> st.props \o n.props]
    [] n.kind \in {"TSInterfaceDeclaration", "TSTypeAliasDeclaration"}
         /\ n.propsName ->
         [st EXCEPT !.props = @ \o n.props]
    [] OTHER -> st

RECURSIVE traverse(_, _)
traverse(st, ast) ==
  IF ast = <<>> THEN st ELSE traverse(visitNode(st, Head(ast)), Tail(ast))

\* deduplicateProps: props.filter with the Set of the names seen
deduplicateProps(props) ==
  SelectSeq([k \in 1..Len(props) |->
               [prop |-> props[k],
                seen |-> \E j \in 1..(k - 1) : props[j].name = props[k].name]],
            LAMBDA x : ~x.seen)

\* the object parseReactComponent returns
parseReactComponent(file) ==
  LET st == traverse([componentName |-> file.base, props |-> <<>>], file.ast)
      kept == deduplicateProps(st.props)
  IN [name |-> st.componentName,
      props |-> [k \in 1..Len(kept) |-> kept[k].prop]]

Prop(name, type, required) == [name |-> name, type |-> type, required |-> required]

\* the component files the extractors are applied to
VueScripts ==
  { EmptyScript,
    Script(<<Member("size", "string", FALSE), Member("color", "string", TRUE),
             Member("size", "number", TRUE)>>,
           <<ObjectProp("size", "String")>>,
           <<Emit("change", "value"), Emit("change", "")>>,
           <<"change", "close", "close">>),
    Script(<<Member("size", "string", FALSE)>>, <<>>, <<>>, <<"close">>),
    Script(<<>>, <<ObjectProp("label", "String")>>, <<Emit("open", "")>>,
           <<>>) }
VueTemplates ==
  { <<>>,
    <<SlotTag("", TRUE, ""), SlotTag("header", TRUE, ":"),
      SlotTag("header", TRUE, ""), SlotTag("", TRUE, "v-bind")>>,
    <<SlotTag("footer", FALSE, ""), SlotTag("footer", TRUE, "")>> }
Sections(S) == {Absent} \cup {Section(c) : c \in S}
VueFiles ==
  {[ext |-> "vue", base |-> "Button",
    descriptor |-> [script |-> sc, scriptSetup |-> su, template |-> t]] :
     sc \in Sections(VueScripts), su \in Sections(VueScripts),
     t \in Sections(VueTemplates)}

ReactNodes ==
  { AstNode("FunctionDeclaration", "Button", TRUE, FALSE, "",
            <<Prop("size", "string", TRUE), Prop("color", "string", FALSE)>>),
    AstNode("FunctionDeclaration", "helper", FALSE, FALSE, "",
            <<Prop("depth", "number", TRUE)>>),
    AstNode("VariableDeclarator", "Card", TRUE, FALSE, "",
            <<Prop("title", "string", TRUE)>>),
    AstNode("ClassDeclaration", "Panel", TRUE, FALSE, "React.Component",
            <<Prop("color", "any", TRUE), Prop("size", "number", FALSE)>>),
    AstNode("ClassDeclaration", "Store", TRUE, FALSE, "Base",
            <<Prop("state", "any", TRUE)>>),
    AstNode("ClassDeclaration", "panel", FALSE, FALSE, "Component",
            <<Prop("open", "boolean", TRUE)>>),
    AstNode("TSInterfaceDeclaration", "ButtonProps", TRUE, TRUE, "",
            <<Prop("size", "number", FALSE), Prop("label", "string", TRUE),
              Prop("label", "any", FALSE)>>),
    AstNode("TSTypeAliasDeclaration", "Options", TRUE, FALSE, "",
            <<Prop("mode", "string", TRUE)>>) }
ReactFiles ==
  {[ext |-> "tsx", base |-> "Widget", ast |-> ast] :
     ast \in SeqUpTo(ReactNodes, MaxAstNodes)}

InitComponents ==
  /\ UnitInit("parseComponent")
  /\ given \in VueFiles \cup ReactFiles

ParseVueComponent ==
  /\ given.ext = "vue"
  /\ UnitReturn(parseVueComponent(given))

ParseReactComponent ==
  /\ given.ext = "tsx"
  /\ UnitReturn(parseReactComponent(given))

NextComponents ==
  \/ ParseVueComponent
  \/ ParseReactComponent

SpecComponents == InitComponents /\ [][NextComponents]_vars

NoTwoSameName(list) ==
  \A i, j \in 1..Len(list) : i # j => list[i].name # list[j].name

\* C18: in the Component Description either extractor returns, no two props,
\* no two events and no two slots have the same name
C18_NoDuplicateNames ==
  pc = "return" =>
    \A field \in {"props", "events", "slots"} \cap DOMAIN got :
      NoTwoSameName(got[field])

IsList(v) == DOMAIN v = 1..Len(v)

\* the sections of the given single-file component that are absent
NoScript ==
  given.descriptor.script = Absent /\ given.descriptor.scriptSetup = Absent
NoEmits ==
  scriptContent(given.descriptor).typedEmits = <<>>
    /\ scriptContent(given.descriptor).emitCalls = <<>>
NoTemplate == given.descriptor.template = Absent

\* the Component Description of a single-file component: three lists, empty
\* for the sections that are absent
VueListsComplete ==
  /\ {"name", "props", "events", "slots"} \subseteq DOMAIN got
  /\ IsList(got.props) /\ IsList(got.events) /\ IsList(got.slots)
  /\ NoScript => got.props = <<>> /\ got.events = <<>>
  /\ NoEmits => got.events = <<>>
  /\ NoTemplate => got.slots = <<>>

MaxDecls == 2

\* a node of the TypeScript syntax tree: its kind, the names it declares (one,
\* or one per declarator of a variable statement; "" for a function or class
\* without name and for a declarator that is a binding pattern) and its
\* children, in the order ts.forEachChild visits them (the statements of the
\* body of a function or method, the members of a class)
TsNode(kind, names, children) ==
  [kind |-> kind, names |-> names, children |-> children]

ApiDocNode(name, kind) == [name |-> name, kind |-> kind]

\* what visit pushes for the node itself: parseFunctionDeclaration, ...,
\* parseVariableStatement, parseEnumDeclaration
pushed(n) ==
  CASE n.kind = "FunctionDeclaration" /\ n.names[1] # "" ->
         <<ApiDocNode(n.names[1], "function")>>
    [] n.kind = "ClassDeclaration" /\ n.names[1] # "" ->
         <<ApiDocNode(n.names[1], "class")>>
    [] n.kind = "InterfaceDeclaration" ->
         <<ApiDocNode(n.names[1], "interface")>>
    [] n.kind = "TypeAliasDeclaration" -> <<ApiDocNode(n.names[1], "type")>>
    [] n.kind = "VariableStatement" ->
         LET ids == SelectSeq(n.names, LAMBDA x : x # "")
         IN [k \in 1..Len(ids) |-> ApiDocNode(ids[k], "variable")]
    [] n.kind = "EnumDeclaration" -> <<ApiDocNode(n.names[1], "enum")>>
    [] OTHER -> <<>>

RECURSIVE visit(_)
RECURSIVE visitAll(_)
\* visit(node): the pushes for the node, then ts.forEachChild(node, visit)
visit(n) == pushed(n) \o visitAll(n.children)
visitAll(ns) == IF ns = <<>> THEN <<>> ELSE visit(Head(ns)) \o visitAll(Tail(ns))

\* isExported: `return true`
isExported(node) == TRUE

\* parseTypeScriptFile: visit(sourceFile); nodes.filter(isExported)
parseTypeScriptFile(statements) ==
  SelectSeq(visit(TsNode("SourceFile", <<>>, statements)), isExported)

\* the statements the source files are made of
TsStatements ==
  { TsNode("FunctionDeclaration", <<"parse">>, <<>>),
    TsNode("FunctionDeclaration", <<"">>, <<>>),
    TsNode("ClassDeclaration", <<"Parser">>, <<>>),
    TsNode("InterfaceDeclaration", <<"Options">>, <<>>),
    TsNode("TypeAliasDeclaration", <<"Id">>, <<>>),
    TsNode("VariableStatement", <<"a", "", "b">>, <<>>),
    TsNode("EnumDeclaration", <<"Kind">>, <<>>),
    TsNode("ExpressionStatement", <<>>, <<>>),
    TsNode("FunctionDeclaration", <<"outer">>,
           <<TsNode("VariableStatement", <<"tmp">>, <<>>),
             TsNode("FunctionDeclaration", <<"inner">>, <<>>)>>),
    TsNode("ClassDeclaration", <<"Service">>,
           <<TsNode("PropertyDeclaration", <<"port">>, <<>>),
             TsNode("MethodDeclaration", <<"run">>,
                    <<TsNode("VariableStatement", <<"local">>, <<>>)>>)>>) }

InitTypeScript ==
  /\ UnitInit("parseTypeScriptFile")
  /\ given \in SeqUpTo(TsStatements, MaxDecls)

ParseTypeScriptFile == UnitReturn(parseTypeScriptFile(given))

NextTypeScript == ParseTypeScriptFile

SpecTypeScript == InitTypeScript /\ [][NextTypeScript]_vars

RECURSIVE TopLevelNodes(_)
\* one Annotation Node per named declaration at the top level of the file
TopLevelNodes(statements) ==
  IF statements = <<>> THEN <<>>
  ELSE pushed(Head(statements)) \o TopLevelNodes(Tail(statements))

\* C20: parseTypeScriptFile returns one Annotation Node per top-level
\* declaration of the six kinds (one per declared variable), in source order,
\* and none for a declaration nested in the body of a function or method
C20_TopLevelDeclarations ==
  pc = "return" => got = TopLevelNodes(given)

\* ----------------------------------------------------------- getJSDocComment
\* the greatest number of tags of a documentation comment
MaxTags == 3

\* a tag of a documentation comment: tag.tagName.text and the text of
\* tag.comment, "" when the tag has no comment
JSDocTag(tagName, tagText) == [tagName |-> tagName, tagText |-> tagText]

\* the values a member of `tags` can have: a string, an array, or, for a name
\* that `tags` does not own, what the object inherits under that name
Str(text) == [kind |-> "string", items |-> <<text>>]
Arr(items) == [kind |-> "array", items |-> items]
Undefined == [kind |-> "undefined", items |-> <<>>]
ObjectFunction == [kind |-> "function", items |-> <<"function Object">>]

\* the member names that the object literal {} inherits from Object.prototype
ObjectPrototype == {"constructor"}

\* tags[tagName]
member(tags, tagName) ==
  IF tagName \in DOMAIN tags THEN tags[tagName]
  ELSE IF tagName \in ObjectPrototype THEN ObjectFunction
  ELSE Undefined

\* the truth value JavaScript gives a value in a condition
truthy(v) ==
  CASE v.kind = "undefined" -> FALSE
    [] v.kind = "string" -> v.items[1] # ""
    [] OTHER -> TRUE

\* tags[tagName] = v
assign(tags, tagName, v) ==
  [n \in DOMAIN tags \cup {tagName} |-> IF n = tagName THEN v ELSE tags[n]]

\* the callback of jsDocTags.forEach
forEachTag(acc, tag) ==
  IF tag.tagName = "example"
  THEN [acc EXCEPT !.examples = Append(@, tag.tagText)]
  ELSE LET old == member(acc.tags, tag.tagName)
       IN IF truthy(old)
          THEN IF old.kind = "array"
               THEN [acc EXCEPT !.tags = assign(@, tag.tagName,
                                   Arr(Append(old.items, tag.tagText)))]
               ELSE [acc EXCEPT !.tags = assign(@, tag.tagName,
                                   Arr(old.items \o <<tag.tagText>>))]
          ELSE [acc EXCEPT !.tags = assign(@, tag.tagName, Str(tag.tagText))]

RECURSIVE forEachTags(_, _)
forEachTags(acc, jsDocTags) ==
  IF jsDocTags = <<>> THEN acc
  ELSE forEachTags(forEachTag(acc, Head(jsDocTags)), Tail(jsDocTags))

\* getJSDocComment of a node that has a documentation comment with these tags
getJSDocComment(jsDocTags) ==
  forEachTags([examples |-> <<>>, tags |-> [n \in {} |-> Undefined]],
              jsDocTags)

TagNames == {"example", "param", "constructor"}
TagTexts == {"", "a", "b"}
JSDocTags == {JSDocTag(n, t) : n \in TagNames, t \in TagTexts}

InitJSDoc ==
  /\ UnitInit("getJSDocComment")
  /\ given \in SeqUpTo(JSDocTags, MaxTags)

GetJSDocComment == UnitReturn(getJSDocComment(given))

NextJSDoc == GetJSDocComment

SpecJSDoc == InitJSDoc /\ [][NextJSDoc]_vars

\* the texts of the tags of one name, in source order
TextsOf(jsDocTags, tagName) ==
  LET mine == SelectSeq(jsDocTags, LAMBDA t : t.tagName = tagName)
  IN [k \in 1..Len(mine) |-> mine[k].tagText]

\* C21: every tag other than @example appears in `tags` under its name, a
\* name occurring once mapped to its text and a name occurring k >= 2 times
\* mapped to the list of its k texts in source order, empty texts included;
\* each @example tag gives one entry of `examples`, in order, and none of `tags`
C21_TagsCollected ==
  pc = "return" /\ mode = "getJSDocComment" =>
    LET names == {given[k].tagName : k \in 1..Len(given)} \ {"example"}
    IN /\ got.examples = TextsOf(given, "example")
       /\ DOMAIN got.tags = names
       /\ \A n \in names :
            LET texts == TextsOf(given, n)
            IN got.tags[n] = IF Len(texts) = 1 THEN Str(texts[1])
                             ELSE Arr(texts)

\* ------------------------------------------- extractProps: the typed block
\* the greatest number of fields of a typed prop block
MaxFields == 2

\* the text captured by /defineProps<\{([^}]+)\}>/s, as a sequence of tokens:
\* a word (a run of \w characters) or one other character
NotWord == {"?", ":", " ", "\n", ";", ",", "|"}
IsWord(t) == t \notin NotWord
IsSpace(t) == t \in {" ", "\n"}
InType(t) == t \notin {";", "\n"}

\* the first position from i on where the tokens stop being white space
\* (space = TRUE) or stop being part of a type
RECURSIVE runEnd(_, _, _)
runEnd(s, i, space) ==
  IF i <= Len(s) /\ (IF space THEN IsSpace(s[i]) ELSE InType(s[i]))
  THEN runEnd(s, i + 1, space)
  ELSE i

\* one match of /(\w+)\??:\s*([^;\n]+)/ that starts at token i, or <<>>:
\* \s* is greedy and gives back what the type needs to be non-empty
propMatchAt(s, i) ==
  IF i > Len(s) \/ ~IsWord(s[i]) THEN <<>>
  ELSE LET q == i + 1 <= Len(s) /\ s[i + 1] = "?"
           colon == IF q THEN i + 2 ELSE i + 1
       IN IF colon > Len(s) \/ s[colon] # ":" THEN <<>>
          ELSE LET from == colon + 1
                   spaces == runEnd(s, from, TRUE)
                   starts == {k \in from..spaces : k <= Len(s) /\ InType(s[k])}
               IN IF starts = {} THEN <<>>
                  ELSE LET start == CHOOSE k \in starts :
                                      \A other \in starts : other <= k
                           stop == runEnd(s, start, FALSE)
                       IN <<[name |-> s[i],
                             type |-> SubSeq(s, start, stop - 1),
                             text |-> SubSeq(s, i, stop - 1),
                             next |-> stop]>>

\* propsContent.matchAll(/(\w+)\??:\s*([^;\n]+)/g), from token i on
RECURSIVE propMatchesFrom(_, _)
propMatchesFrom(s, i) ==
  IF i > Len(s) THEN <<>>
  ELSE IF propMatchAt(s, i) = <<>> THEN propMatchesFrom(s, i + 1)
  ELSE <<propMatchAt(s, i)[1]>> \o propMatchesFrom(s, propMatchAt(s, i)[1].next)

\* String.prototype.includes
includes(s, t) == \E k \in 1..Len(s) : s[k] = t

\* !match[0].includes('?') looks at the whole matched text
questionInMatch(m) == includes(m.text, "?")

\* the members the loop over propMatches pushes: name, type.trim() and the
\* question mark that makes required false
typedPropMatches(propsContent) ==
  LET ms == propMatchesFrom(propsContent, 1)
  IN [k \in 1..Len(ms) |->
        Member(ms[k].name, trim(ms[k].type), questionInMatch(ms[k]))]

\* a field as the component author declares it, and its text in the block
Field(name, question, type, sep) ==
  [name |-> name, question |-> question, type |-> type, sep |-> sep]
fieldText(f) ==
  <<"\n", " ", f.name>> \o (IF f.question THEN <<"?">> ELSE <<>>)
    \o <<":", " ">> \o f.type \o <<f.sep>>
RECURSIVE blockText(_)
blockText(fields) ==
  IF fields = <<>> THEN <<>>
  ELSE fieldText(Head(fields)) \o blockText(Tail(fields))

FieldTypes ==
  { <<"string">>,
    <<"string", " ", "|", " ", "number">>,
    <<"T", " ", "extends", " ", "U", " ", "?", " ", "X", " ", ":", " ", "Y">> }
Fields ==
  {Field(n, q, t, sep) : n \in {"size", "label"}, q \in BOOLEAN,
                         t \in FieldTypes, sep \in {";", "\n", ","}}

\* the composition-style component whose <script setup> declares the fields
SetupComponent(fields) ==
  [script |-> Absent,
   scriptSetup |->
     Section(Script(typedPropMatches(blockText(fields)), <<>>, <<>>, <<>>)),
   template |-> Absent]

InitVueProps ==
  /\ UnitInit("extractProps")
  /\ given \in SeqUpTo(Fields, MaxFields)

ExtractProps == UnitReturn(extractProps(SetupComponent(given)))

NextVueProps == ExtractProps

SpecVueProps == InitVueProps /\ [][NextVueProps]_vars

\* C22: the props extracted from a typed prop block are its fields in
\* declaration order, and a prop is required exactly when its field name does
\* not carry the optional marker, whatever the text of its type
C22_RequiredFlags ==
  pc = "return" /\ mode = "extractProps" /\ given # <<>> =>
    /\ Len(got) = Len(given)
    /\ \A k \in 1..Len(got) :
         /\ got[k].name = given[k].name
         /\ got[k].required = ~given[k].question

\* ------------------------------------------------------------ heading slugs
\* the greatest number of characters of a heading text
MaxChars == 3

\* a character of the CJK range 一-龥
Han == "U+4E2D"

\* String.prototype.toLowerCase
toLowerCase(s) == [k \in 1..Len(s) |-> IF s[k] = "A" THEN "a" ELSE s[k]]

RECURSIVE replaceSpaceRuns(_)
\* replace(/\s+/g, '-')
replaceSpaceRuns(s) ==
  IF s = <<>> THEN <<>>
  ELSE IF Head(s) = " " THEN <<"-">> \o replaceSpaceRuns(trimStart(s))
  ELSE <<Head(s)>> \o replaceSpaceRuns(Tail(s))

\* the class [\w\-一-龥] of the characters slugify keeps
SlugChars == {"A", "a", "b", "_", "-", Han}

\* replace(/[^\w\-一-龥]+/g, '')
removeOthers(s) == SelectSeq(s, LAMBDA c : c \in SlugChars)

\* encodeURIComponent: letters, digits and - _ . ! ~ * ' ( ) stay, any other
\* character becomes the escapes of its UTF-8 bytes
encodeURIComponent(s) ==
  [k \in 1..Len(s) |->
     CASE s[k] = Han -> "%E4%B8%AD"
       [] s[k] = " " -> "%20"
       [] s[k] = "," -> "%2C"
       [] OTHER -> s[k]]

\* the slugify option createMarkdownProcessor gives the anchor plugin
anchorSlugify(s) ==
  encodeURIComponent(replaceSpaceRuns(toLowerCase(trim(s))))

\* MarkdownProcessor.slugify
slugify(text) ==
  encodeURIComponent(removeOthers(replaceSpaceRuns(toLowerCase(trim(text)))))

\* the heading of a document whose inline content is `text`: the id the anchor
\* plugin puts on the rendered heading (config.anchor set) and the slug of the
\* entry extractHeaders returns for it
headingSlugs(text) == [id |-> anchorSlugify(text), slug |-> slugify(text)]

\* the inline content of a heading has no white space at either end
HeadingChars == {"A", "b", " ", "_", ",", "!", Han}
HeadingTexts == {s \in SeqUpTo(HeadingChars, MaxChars) : s # <<>> /\ trim(s) = s}

InitSlug ==
  /\ UnitInit("slugify")
  /\ given \in HeadingTexts

HeadingSlugs == UnitReturn(headingSlugs(given))

NextSlug == HeadingSlugs

SpecSlug == InitSlug /\ [][NextSlug]_vars

\* C23: the anchor id Render attaches to a heading and the slug extractHeaders
\* returns for the same heading are the same value
C23_AnchorEqualsSlug ==
  pc = "return" /\ mode = "slugify" => got.id = got.slug

\* ------------------------------------------------- claims on the command run
\* the Document Nodes pushed so far: those of the categories that are done and
\* those of the category in progress
NodesSoFar == docs \o local

\* C24: during a generation pass the Document Node list only grows by
\* appending, and its nodes are, category by category, those of the input
\* files in enumeration order, without the files that failed (and without
\* the annotation files in which no declaration was found, which give no
\* node)
C24_AppendOnlyInOrder ==
  /\ [][IsPrefix(NodesSoFar, NodesSoFar')]_vars
  /\ [](IsPrefix(PathsOf(NodesSoFar), NodePaths(NotThrewNotEmpty)))

\* generation is over for two prose files that both gave a node
C24_Witness ==
  /\ GenerationOver
  /\ Len(fs.md) = 2
  /\ Len(docs) = 2
  /\ docs[1].path = fs.md[1].rel
  /\ docs[2].path = fs.md[2].rel

\* one of the three forms of a component: a function declaration, a variable
\* initialised with an arrow function, a class that extends a known base
IsComponentForm(n) ==
  \/ n.kind \in {"FunctionDeclaration", "VariableDeclarator"}
  \/ n.kind = "ClassDeclaration" /\ isComponentClass(n)

\* C25: in a JSX-style file a declaration of one of the three forms supplies
\* the name of the Component Description if and only if its identifier starts
\* with an upper-case letter; when no form qualifies the name is the base name
\* of the file
C25_CapitalizedFormsAreComponents ==
  pc = "return" /\ mode = "parseComponent" /\ given.ext = "tsx" =>
    LET qualifying == SelectSeq(given.ast,
                                LAMBDA n : IsComponentForm(n) /\ n.upper)
    IN got.name = IF qualifying = <<>> THEN given.base
                  ELSE qualifying[Len(qualifying)].name

\* the invocations of transformMarkdown hooks made for prose file f
TransformCalls(f) ==
  SelectSeq(trace, LAMBDA e : IsCall(e, "transformMarkdown") /\ e.file = f.name)

\* a transformMarkdown hook threw while prose file f was processed
TransformThrew(f) ==
  \E k \in 1..Len(trace) :
    /\ trace[k].ev = "throw"
    /\ trace[k].kind = "transformMarkdown"
    /\ trace[k].file = f.name

\* the loop of category cat took up file f
TakenUp(cat, f) == \E k \in 1..Len(trace) : trace[k] = FileEvent(cat, f)

\* C26: an exception of a transformMarkdown hook is a failure of the one file
\* in process: the command goes on, the file gives no Document Node, the
\* plugins after the throwing one are not invoked for it, and every other
\* file of every category is still taken up, the prose files that raise
\* nothing going through the full chain
C26_TransformFailureIsPerFile ==
  /\ err # "file"
  /\ \A f \in Range(fs.md) : \A k \in 1..Len(trace) :
       (trace[k].ev = "throw" /\ trace[k].kind = "transformMarkdown"
          /\ trace[k].file = f.name) =>
         /\ \A n \in Range(NodesSoFar) :
              n.type = "markdown" => n.path # f.rel
         /\ \A j \in (k + 1)..Len(trace) :
              ~(trace[j].kind = "transformMarkdown"
                  /\ trace[j].file = f.name)
         /\ trace[k].who = TransformCalls(f)[Len(TransformCalls(f))].who
  /\ GenerationOver =>
       /\ \A cat \in {"md", "api", "vue", "react"} :
            \A f \in Range(fs[cat]) : TakenUp(cat, f)
       /\ \A f \in Range(fs.md) :
            ~Threw("md", f) =>
              /\ WhoOf(TransformCalls(f))
                   = Names(Definers(regLog, "transformMarkdown"))
              /\ \E n \in Range(docs) : n.type = "markdown" /\ n.path = f.rel

\* generation is over: the first of two transformMarkdown hooks threw on the
\* first of two prose files, the second file went through both hooks and gave
\* the only Document Node
C26_Witness ==
  /\ GenerationOver
  /\ Len(fs.md) = 2
  /\ Len(Definers(regLog, "transformMarkdown")) = 2
  /\ TransformThrew(fs.md[1])
  /\ Len(TransformCalls(fs.md[1])) = 1
  /\ Len(TransformCalls(fs.md[2])) = 2
  /\ Len(docs) = 1

\* ---------------------------------------------------------- createHighlighter
\* the greatest number of createHighlighter calls of one process
MaxCallers == 3

\* the theme pairs of the calls
Themes == {"github", "nord"}

\* a call of createHighlighter: its argument, its position (await, returned,
\* threw) and whether it called getHighlighter
HighlighterCall(theme, at, started) ==
  [theme |-> theme, at |-> at, started |-> started]

\* the instance getHighlighter resolves to for call i
Instance(i) == <<[by |-> i, themes |-> callers[i].theme]>>

\* createHighlighter is called and runs up to its first await: `if
\* (!highlighter)` and the call of getHighlighter, or, past the if, the return
\* of the closure
CreateHighlighter ==
  /\ Len(callers) < MaxCallers
  /\ \E theme \in Themes :
       callers' = Append(callers,
                         IF highlighter = Null
                         THEN HighlighterCall(theme, "await", TRUE)
                         ELSE HighlighterCall(theme, "returned", FALSE))
  /\ UNCHANGED highlighter
  /\ UNCHANGED <<given, got, mode, pc, config, plugins, regLog, hook, ret,
                 ncalls, trace, fs, idx, content, local, docs, err, out>>

\* the promise of getHighlighter is fulfilled: `highlighter = await ...`, then
\* the return of the closure
GetHighlighterFulfilled ==
  /\ \E i \in 1..Len(callers) :
       /\ callers[i].at = "await"
       /\ highlighter' = Instance(i)
       /\ callers' = [callers EXCEPT ![i].at = "returned"]
  /\ UNCHANGED <<given, got, mode, pc, config, plugins, regLog, hook, ret,
                 ncalls, trace, fs, idx, content, local, docs, err, out>>

\* the promise of getHighlighter is rejected: createHighlighter throws
GetHighlighterRejected ==
  /\ \E i \in 1..Len(callers) :
       /\ callers[i].at = "await"
       /\ callers' = [callers EXCEPT ![i].at = "threw"]
  /\ UNCHANGED highlighter
  /\ UNCHANGED <<given, got, mode, pc, config, plugins, regLog, hook, ret,
                 ncalls, trace, fs, idx, content, local, docs, err, out>>

InitHighlighter ==
  /\ UnitInit("createHighlighter")
  /\ given = <<>>

NextHighlighter ==
  \/ CreateHighlighter
  \/ GetHighlighterFulfilled
  \/ GetHighlighterRejected

SpecHighlighter == InitHighlighter /\ [][NextHighlighter]_vars

\* the calls whose initialisation of the syntax highlighter is pending or done
Initialising ==
  {i \in 1..Len(callers) : callers[i].started /\ callers[i].at # "threw"}

\* C27: across any interleaving of createHighlighter calls the syntax
\* highlighter is initialised at most once: no call starts an initialisation
\* while another one is pending or done, and the instance, once set, is the
\* one the first initialisation created
C27_InitialisedOnce ==
  /\ Cardinality(Initialising) <= 1
  /\ highlighter # Null => highlighter[1].by \in Initialising

\* ------------------------------- generateMarkdownDocs: one prose file
\* the greatest number of transformMarkdown hooks of the chain
MaxTransforms == 2

\* what a transformMarkdown hook can do to the text it is given: add a line
\* at the end, add a line at the start, drop a leading front-matter block, put
\* a front-matter block of its own at the start
Transforms == {"append", "prepend", "strip", "retitle"}

transformLines(how, lines) ==
  CASE how = "append" -> Append(lines, <<"p">>)
    [] how = "prepend" -> <<<<"p">>>> \o lines
    [] how = "strip" ->
         IF frontmatterMatch(lines) = <<>> THEN lines
         ELSE SubSeq(lines, Len(frontmatterMatch(lines)[1]) + 3, Len(lines))
    [] how = "retitle" ->
         <<Dashes, <<"title", ":", "z">>, <<"c", ":", "z">>, Dashes>> \o lines

RECURSIVE transformMarkdown(_, _)
\* PluginManager.transformMarkdown over a chain of such hooks
transformMarkdown(chain, lines) ==
  IF chain = <<>> THEN lines
  ELSE transformMarkdown(Tail(chain), transformLines(Head(chain), lines))

\* the object of docs.push({path, title, content, type: 'markdown', meta})
ProseNode(relativePath, frontmatter, html) ==
  [path |-> relativePath,
   title |-> IF frontmatter.title # <<>> THEN Verbatim(frontmatter.title)
             ELSE getTitleFromPath(relativePath),
   content |-> html,
   type |-> "markdown",
   meta |-> IF "meta" \in DOMAIN frontmatter THEN Section(frontmatter.meta)
            ELSE Absent]

\* the body of the loop of generateMarkdownDocs for a file that is read,
\* transformed and rendered without an exception
generateMarkdownDocLate(file, chain) ==
  LET transformed == transformMarkdown(chain, file.content)
  IN ProseNode(file.rel, extractFrontmatter(transformed),
               [html |-> "markdown", of |-> transformed])
generateMarkdownDoc(file, chain) ==
  LET transformed == transformMarkdown(chain, file.content)
  IN ProseNode(file.rel, extractFrontmatter(file.content),
               [html |-> "markdown", of |-> transformed])

\* the prose files: with a title and a key in the front matter, with a key
\* only, with a title only, without front matter
ProseContents ==
  { <<Dashes, <<"title", ":", " ", "x">>, <<"a", ":", "y">>, Dashes,
      <<"#", " ", "h">>>>,
    <<Dashes, <<"a", ":", "y">>, Dashes, <<"t">>>>,
    <<Dashes, <<"title", ":", "'", "x", "'">>, Dashes>>,
    <<<<"#", " ", "h">>, <<"t">>>> }
ProseFiles ==
  {[rel |-> Path(dir, <<"g">>, "md"), content |-> c] :
     dir \in {<<>>, <<"guide">>}, c \in ProseContents}

InitProse ==
  /\ UnitInit("generateMarkdownDocs")
  /\ given \in {[file |-> f, chain |-> ch] :
                  f \in ProseFiles, ch \in SeqUpTo(Transforms, MaxTransforms)}

GenerateMarkdownDoc == UnitReturn(generateMarkdownDoc(given.file, given.chain))

NextProse == GenerateMarkdownDoc

SpecProse == InitProse /\ [][NextProse]_vars

\* C28: the title, the metadata and the path of a prose Document Node come
\* from the raw text and the location of the file: they are those of the node
\* the file gives without any transform, whatever the transformMarkdown chain
C28_OnlyContentDependsOnTransforms ==
  pc = "return" /\ mode = "generateMarkdownDocs" =>
    /\ got.path = given.file.rel
    /\ got.title = generateMarkdownDoc(given.file, <<>>).title
    /\ got.meta = generateMarkdownDoc(given.file, <<>>).meta
    /\ got.title = IF extractFrontmatter(given.file.content).title # <<>>
                   THEN Verbatim(extractFrontmatter(given.file.content).title)
                   ELSE getTitleFromPath(given.file.rel)

\* the node of a file with a title and a key in its front matter, after a
\* chain that changed the text, the title and the keys a reader of the
\* transformed text would find
C28_Witness ==
  /\ pc = "return" /\ mode = "generateMarkdownDocs"
  /\ got.title = Verbatim(<<"x">>)
  /\ got.meta = Section({[key |-> <<"a">>, value |-> <<"y">>]})
  /\ got.content # generateMarkdownDoc(given.file, <<>>).content
  /\ extractFrontmatter(transformMarkdown(given.chain, given.file.content))
       # extractFrontmatter(given.file.content)

\* the entries of the history that belong to hook runs
HookEntries == SelectSeq(trace, LAMBDA e : e.ev \in {"call", "end", "throw"})

C30_IndexPathIsPagePath ==
  pc = "return" /\ mode = "generateSearchIndex" =>
    \A k \in 1..Len(given) : got[k].path = HtmlPath(given[k])

====
